---- MODULE Spec2Model ----
(***************************************************************************)
(* Model of the TUSSAM proxy: the SQLite store (stops, stop-line           *)
(* memberships, the two TTL caches), the retrying upstream GET and the     *)
(* scheduled weekly synchronisation pipeline.                              *)
(*                                                                         *)
(* Each subsystem has its own specification over the shared variables:     *)
(*   SpecMembership  save_paradas_lineas_batch and the membership sync     *)
(*   SpecParadas     save_paradas_batch / update_parada_direccion          *)
(*   SpecCache       tiempos_cache and direcciones_cache                   *)
(*   SpecWeekly      _run_weekly_sync                                      *)
(*   SpecRetry       TussamService._get_with_retry                         *)
(***************************************************************************)
EXTENDS Integers, Sequences, FiniteSets, TLC

VARIABLES
    paradas_lineas,     \* committed rows of table paradas_lineas
    tx,                 \* the running/last save_paradas_lineas_batch call
    msync,              \* the running/last sync_paradas_lineas_from_api call
    paradas,            \* rows of table paradas
    lastCall,           \* the last store call on table paradas and its arguments
    now,                \* datetime.now(), in seconds since the start
    tiempos_cache,      \* rows of table tiempos_cache
    direcciones_cache,  \* rows of table direcciones_cache
    ret,                \* the last cache read: its arguments and its result
    history,            \* the writes made to the cache tables, oldest first
    weekly,             \* the running/last _run_weekly_sync and the runs before it
    retry,              \* the running/last _get_with_retry call
    syncall,            \* the running/last POST /sync/all request
    topo,               \* the running/last sync_paradas_from_api call
    nearby,             \* the last get_paradas_cercanas call and its result
    arrivals,           \* the running/last get_tiempos_parada call
    cercanas,           \* the running/last GET /cercanas request
    dirsync,            \* the running/last sync_direcciones_all call
    syncreq,            \* the running/last request to a POST /sync/* endpoint
    limiter,            \* the RateLimitMiddleware instance and its last request
    mread,              \* the last read of table paradas_lineas and its result
    tabla_lineas,       \* rows of table lineas, each reduced to its numero
    lifecycle           \* the process: lifespan, scheduler, HTTP client, weekly job

membershipVars == <<paradas_lineas, tx, msync>>
paradasVars == <<paradas, lastCall>>
clockVars == <<now>>
cacheVars == <<tiempos_cache, direcciones_cache, ret, history>>
jobVars == <<weekly, retry>>
laterVars ==
    <<dirsync, syncreq, limiter, mread, tabla_lineas, lifecycle>>
serviceVars == <<syncall, topo, nearby, arrivals, cercanas, laterVars>>

vars ==
    <<paradas_lineas, tx, msync, paradas, lastCall, now,
      tiempos_cache, direcciones_cache, ret, history, weekly, retry,
      syncall, topo, nearby, arrivals, cercanas, dirsync, syncreq, limiter,
      mread, tabla_lineas, lifecycle>>

(***************************************************************************)
(* Bounds of the model                                                     *)
(***************************************************************************)
MaxRelaciones == 2      \* longest list handed directly to save_paradas_lineas_batch
MaxBatch == 2           \* longest list handed to save_paradas_batch
MaxWrites == 2          \* writes made to the cache tables
MaxRuns == 2            \* runs of the weekly job
device_limit == 2       \* RateLimitMiddleware(device_limit=...), 60 by default
MaxAddressRuns == 3     \* runs of sync_direcciones_all, one after the other
MaxBuckets == 2         \* MAX_BUCKETS of the middleware under many devices, 50,000 in main.py
MaxJobRequests == 3     \* upstream requests of one phase of the weekly job
ip_limit == 3           \* RateLimitMiddleware(ip_limit=...), 300 by default

(***************************************************************************)
(* Value domains                                                           *)
(***************************************************************************)
StopCodes == {"43", "44"}

SeqsUpTo(S, n) == UNION {[1 .. k -> S] : k \in 0 .. n}

Relacion(codigo, label, sentido, orden) ==
    [parada_codigo |-> codigo, linea_numero |-> label, sentido |-> sentido,
     orden |-> orden]

\* The rows a caller hands directly to save_paradas_lineas_batch
RelacionRows ==
    {Relacion("43", "01", 1, 0), Relacion("43", "01", 1, 1),
     Relacion("44", "01", 1, 1), Relacion("44", "01", 2, 0)}

\* PRIMARY KEY (parada_codigo, linea_numero, sentido) of paradas_lineas
PKRelacion(r) == <<r.parada_codigo, r.linea_numero, r.sentido>>

(***************************************************************************)
(* save_paradas_lineas_batch                                               *)
(***************************************************************************)
\* Mutant of InsertOrIgnore: INSERT OR REPLACE, the last row of a key wins
InsertOrIgnore_Replace(table, r) ==
    {x \in table : PKRelacion(x) # PKRelacion(r)} \cup {r}

\* INSERT OR IGNORE: a row whose primary key is already present is skipped
InsertOrIgnore(table, r) ==
    IF \E x \in table : PKRelacion(x) = PKRelacion(r)
    THEN table
    ELSE table \cup {r}

\* Mutant of DeleteAll: the stored rows are left in place
DeleteAll_Nothing(table) == table

\* DELETE FROM paradas_lineas inside the transaction
DeleteAll(table) == {}

\* db.commit(): the transaction's working copy becomes the committed table
Commit(committed, work) == work

\* Mutant of Rollback: the partial work is committed instead of discarded
Rollback_KeepsWork(committed, work) == work

\* db.rollback(): the working copy is discarded
Rollback(committed, work) == committed

\* Mutant of IsEmptyInput: the empty-list guard is missing
IsEmptyInput_NoGuard(relaciones) == FALSE

\* `if not relaciones: return` guard of save_paradas_lineas_batch
IsEmptyInput(relaciones) == Len(relaciones) = 0

TxIdle ==
    [pc |-> "idle", caller |-> "none", input |-> <<>>, i |-> 0,
     work |-> {}, before |-> {}, outcome |-> "none"]

MsyncIdle ==
    [pc |-> "idle", todo |-> <<>>, relaciones |-> <<>>, ret |-> -1,
     failed |-> {}, fetched |-> <<>>]

\* Entry of save_paradas_lineas_batch(relaciones), called by `caller`
BeginSave(relaciones, caller) ==
    IF IsEmptyInput(relaciones)
    THEN [pc |-> "returned", caller |-> caller, input |-> relaciones, i |-> 0,
          work |-> {}, before |-> paradas_lineas,
          outcome |-> "noop"]
    ELSE [pc |-> "inserting", caller |-> caller, input |-> relaciones, i |-> 1,
          work |-> DeleteAll(paradas_lineas), before |-> paradas_lineas,
          outcome |-> "none"]

\* A direct call of save_paradas_lineas_batch(relaciones)
save_paradas_lineas_batch ==
    /\ tx.pc \in {"idle", "returned"}
    /\ msync.pc \in {"idle", "returned", "raised"}
    /\ \E relaciones \in SeqsUpTo(RelacionRows, MaxRelaciones) :
          tx' = BeginSave(relaciones, "direct")
    /\ msync' = MsyncIdle
    /\ UNCHANGED <<serviceVars, paradas_lineas, paradasVars, clockVars, cacheVars, jobVars>>

\* One iteration of `for r in relaciones: execute(INSERT OR IGNORE ...)`;
\* the statement either succeeds or raises (sqlite3 error), which runs the
\* except branch: rollback, log, re-raise.
InsertRow ==
    /\ tx.pc = "inserting"
    /\ tx.i <= Len(tx.input)
    /\ \/ /\ tx' = [tx EXCEPT !.work = InsertOrIgnore(tx.work, tx.input[tx.i]),
                              !.i = tx.i + 1]
          /\ UNCHANGED paradas_lineas
       \/ /\ paradas_lineas' = Rollback(paradas_lineas, tx.work)
          /\ tx' = [tx EXCEPT !.pc = "returned", !.outcome = "raised",
                              !.work = {}]
    /\ UNCHANGED <<serviceVars, msync, paradasVars, clockVars, cacheVars, jobVars>>

\* `await db.commit()` after the loop
CommitSave ==
    /\ tx.pc = "inserting"
    /\ tx.i > Len(tx.input)
    /\ paradas_lineas' = Commit(paradas_lineas, tx.work)
    /\ tx' = [tx EXCEPT !.pc = "returned", !.outcome = "ok", !.work = {}]
    /\ UNCHANGED <<serviceVars, msync, paradasVars, clockVars, cacheVars, jobVars>>

(***************************************************************************)
(* TussamService.sync_paradas_lineas_from_api                              *)
(***************************************************************************)
\* Items of result.lineasDisponibles: numeric id `linea` and `labelLinea`
LineaOk == [linea |-> 1, labelLinea |-> "01"]
LineaNoId == [linea |-> 0, labelLinea |-> "01"]
LineaNoLabel == [linea |-> 1, labelLinea |-> ""]

\* The lineasDisponibles lists the upstream answers with
LineasResponses ==
    {<<>>, <<LineaOk>>, <<LineaNoId>>, <<LineaNoLabel>>, <<LineaNoId, LineaOk>>}

\* The nodosLinea results the upstream answers with, each node reduced to
\* its `codigo` ("" when the node has none)
NodosResponses ==
    {<<>>, <<"43">>, <<"44">>, <<"43", "44">>, <<"43", "43">>, <<"", "43">>}

\* `if not linea_num or not label: continue`
LineaSkipped(item) == item.linea = 0 \/ item.labelLinea = ""

\* The (label, sentido) iterations of the two nested loops, in order
RECURSIVE Iterations(_)
Iterations(lineas) ==
    IF lineas = <<>> THEN <<>>
    ELSE IF LineaSkipped(Head(lineas)) THEN Iterations(Tail(lineas))
    ELSE <<[label |-> Head(lineas).labelLinea, sentido |-> 1],
           [label |-> Head(lineas).labelLinea, sentido |-> 2]>>
         \o Iterations(Tail(lineas))

\* Mutant of RowsOfNodos: the ordinal counts only the nodes that have a code
RECURSIVE RowsOfNodos_SkipBlank(_, _, _, _)
RowsOfNodos_SkipBlank(nodos, label, sentido, orden) ==
    IF nodos = <<>> THEN <<>>
    ELSE IF Head(nodos) = ""
         THEN RowsOfNodos_SkipBlank(Tail(nodos), label, sentido, orden)
         ELSE <<[parada_codigo |-> Head(nodos), linea_numero |-> label,
                 sentido |-> sentido, orden |-> orden]>>
              \o RowsOfNodos_SkipBlank(Tail(nodos), label, sentido, orden + 1)

\* `for orden, nodo in enumerate(nodos): if codigo: relaciones.append(...)`
RECURSIVE RowsOfNodos(_, _, _, _)
RowsOfNodos(nodos, label, sentido, orden) ==
    IF nodos = <<>> THEN <<>>
    ELSE (IF Head(nodos) # ""
          THEN <<[parada_codigo |-> Head(nodos), linea_numero |-> label,
                  sentido |-> sentido, orden |-> orden]>>
          ELSE <<>>)
         \o RowsOfNodos(Tail(nodos), label, sentido, orden + 1)

\* The value the sync returns: len(relaciones)
SyncReturnValue(relaciones) == Len(relaciones)

\* Start of the sync: the line list is fetched with _get_with_retry, which
\* either raises (the sync raises) or yields lineasDisponibles.
sync_paradas_lineas_from_api ==
    /\ msync.pc \in {"idle", "returned", "raised"}
    /\ tx.pc \in {"idle", "returned"}
    /\ \/ msync' = [MsyncIdle EXCEPT !.pc = "raised"]
       \/ \E lineas \in LineasResponses :
             msync' = [MsyncIdle EXCEPT !.pc = "fetching",
                                        !.todo = Iterations(lineas)]
    /\ tx' = TxIdle
    /\ UNCHANGED <<serviceVars, paradas_lineas, paradasVars, clockVars, cacheVars, jobVars>>

\* One (linea, sentido) iteration: the nodosLinea fetch fails (logged, no
\* rows) or returns a stop sequence whose rows are appended.
FetchNodos ==
    /\ msync.pc = "fetching"
    /\ msync.todo # <<>>
    /\ LET it == Head(msync.todo) IN
       \/ msync' = [msync EXCEPT !.todo = Tail(msync.todo),
                                 !.failed = @ \cup {it}]
       \/ \E nodos \in NodosResponses :
             msync' = [msync EXCEPT
                          !.todo = Tail(msync.todo),
                          !.fetched = Append(@, [label |-> it.label,
                                                 sentido |-> it.sentido,
                                                 nodos |-> nodos]),
                          !.relaciones = msync.relaciones
                              \o RowsOfNodos(nodos, it.label, it.sentido, 0)]
    /\ UNCHANGED <<serviceVars, paradas_lineas, tx, paradasVars, clockVars, cacheVars, jobVars>>

\* After the loops: `await db.save_paradas_lineas_batch(relaciones)`
SyncSave ==
    /\ msync.pc = "fetching"
    /\ msync.todo = <<>>
    /\ tx' = BeginSave(msync.relaciones, "sync")
    /\ msync' = [msync EXCEPT !.pc = "saving"]
    /\ UNCHANGED <<serviceVars, paradas_lineas, paradasVars, clockVars, cacheVars, jobVars>>

\* The save returned or raised: the sync returns len(relaciones) or raises
SyncReturn ==
    /\ msync.pc = "saving"
    /\ tx.pc = "returned"
    /\ \/ /\ tx.outcome = "raised"
          /\ msync' = [msync EXCEPT !.pc = "raised"]
       \/ /\ tx.outcome # "raised"
          /\ msync' = [msync EXCEPT !.pc = "returned",
                                    !.ret = SyncReturnValue(msync.relaciones)]
    /\ UNCHANGED <<serviceVars, paradas_lineas, tx, paradasVars, clockVars, cacheVars, jobVars>>

(***************************************************************************)
(* Table paradas: save_parada, save_paradas_batch, update_parada_direccion *)
(***************************************************************************)
NULL == "<NULL>"        \* SQL NULL / Python None

\* The address columns of table paradas
AddressColumns ==
    {"calle", "numero", "codigo_postal", "municipio", "provincia",
     "comunidad_autonoma", "direccion_completa"}

\* Name and coordinates (1e-5 degrees) the upstream reports for a stop
StopVersions ==
    {[nombre |-> "Plaza Nueva", latitud |-> 3738900, longitud |-> -598400],
     [nombre |-> "Pza. Nueva", latitud |-> 3741200, longitud |-> -598200]}

\* The calle/numero a caller passes with a stop: none, empty, or a street
StreetArgs ==
    {[calle |-> NULL, numero |-> NULL],
     [calle |-> "", numero |-> NULL],
     [calle |-> "Calle A", numero |-> "7"]}

StopInput(c, v, a) ==
    [codigo |-> c, nombre |-> v.nombre, latitud |-> v.latitud,
     longitud |-> v.longitud, calle |-> a.calle, numero |-> a.numero]

\* The dicts handed to save_paradas_batch: stop 43 in every version, with
\* and without a street; stop 44 in every version, without a street
StopInputs ==
    {StopInput("43", v, a) : v \in StopVersions, a \in StreetArgs}
        \cup {StopInput("44", v, [calle |-> NULL, numero |-> NULL]) :
                 v \in StopVersions}

\* The stops handed to save_parada(codigo, nombre, latitud, longitud)
SingleStopInputs == {p \in StopInputs : p.calle = NULL}

\* The address tuples the geocoding sync persists
GeocodedAddresses ==
    {[calle |-> "Calle B", numero |-> "", codigo_postal |-> "41001",
      municipio |-> "Sevilla", provincia |-> "Sevilla",
      comunidad_autonoma |-> "Andalucia", direccion_completa |-> "Calle B"]}

\* A full row of table paradas
ParadaRow(codigo, nombre, latitud, longitud, calle, numero, cp, municipio,
          provincia, ccaa, completa, updated_at) ==
    [codigo |-> codigo, nombre |-> nombre, latitud |-> latitud,
     longitud |-> longitud, calle |-> calle, numero |-> numero,
     codigo_postal |-> cp, municipio |-> municipio, provincia |-> provincia,
     comunidad_autonoma |-> ccaa, direccion_completa |-> completa,
     updated_at |-> updated_at]

HasParada(table, codigo) == \E r \in table : r.codigo = codigo
ParadaOf(table, codigo) == CHOOSE r \in table : r.codigo = codigo

\* `if calle:` of save_paradas_batch: None and "" are falsy
HasCalle(p) == p.calle # NULL /\ p.calle # ""

\* INSERT ... ON CONFLICT(codigo) DO UPDATE SET nombre, latitud, longitud,
\* calle, numero, updated_at (branch `if calle`)
UpsertWithAddress(table, p, t) ==
    IF HasParada(table, p.codigo)
    THEN {IF r.codigo = p.codigo
          THEN [r EXCEPT !.nombre = p.nombre, !.latitud = p.latitud,
                         !.longitud = p.longitud, !.calle = p.calle,
                         !.numero = p.numero, !.updated_at = t]
          ELSE r : r \in table}
    ELSE table \cup {ParadaRow(p.codigo, p.nombre, p.latitud, p.longitud,
                               p.calle, p.numero, NULL, NULL, NULL, NULL,
                               NULL, t)}

\* Mutant of UpsertWithoutAddress: the conflict branch also writes calle and
\* numero from the input (NULL when the input has none)
UpsertWithoutAddress_Nulls(table, p, t) ==
    IF HasParada(table, p.codigo)
    THEN {IF r.codigo = p.codigo
          THEN [r EXCEPT !.nombre = p.nombre, !.latitud = p.latitud,
                         !.longitud = p.longitud, !.calle = NULL,
                         !.numero = NULL, !.updated_at = t]
          ELSE r : r \in table}
    ELSE table \cup {ParadaRow(p.codigo, p.nombre, p.latitud, p.longitud,
                               NULL, NULL, NULL, NULL, NULL, NULL, NULL, t)}

\* INSERT ... ON CONFLICT(codigo) DO UPDATE SET nombre, latitud, longitud,
\* updated_at (branch else: the address columns are left alone)
UpsertWithoutAddress(table, p, t) ==
    IF HasParada(table, p.codigo)
    THEN {IF r.codigo = p.codigo
          THEN [r EXCEPT !.nombre = p.nombre, !.latitud = p.latitud,
                         !.longitud = p.longitud, !.updated_at = t]
          ELSE r : r \in table}
    ELSE table \cup {ParadaRow(p.codigo, p.nombre, p.latitud, p.longitud,
                               NULL, NULL, NULL, NULL, NULL, NULL, NULL, t)}

\* One iteration of `for p in paradas:` of save_paradas_batch
UpsertParada(table, p, t) ==
    IF HasCalle(p)
    THEN UpsertWithAddress(table, p, t)
    ELSE UpsertWithoutAddress(table, p, t)

\* Mutant of SaveParada: a plain INSERT that leaves the stored row in place
SaveParada_Insert(table, p, t) ==
    table \cup {ParadaRow(p.codigo, p.nombre, p.latitud, p.longitud,
                          p.calle, p.numero, NULL, NULL, NULL, NULL, NULL, t)}

\* save_parada: INSERT OR REPLACE of (codigo, nombre, latitud, longitud,
\* calle, numero, updated_at); the replaced row's other columns become NULL
SaveParada(table, p, t) ==
    {r \in table : r.codigo # p.codigo}
        \cup {ParadaRow(p.codigo, p.nombre, p.latitud, p.longitud,
                        p.calle, p.numero, NULL, NULL, NULL, NULL, NULL, t)}

\* update_parada_direccion: UPDATE paradas SET <address columns> WHERE codigo
UpdateParadaDireccion(table, codigo, a) ==
    {IF r.codigo = codigo
     THEN [r EXCEPT !.calle = a.calle, !.numero = a.numero,
                    !.codigo_postal = a.codigo_postal,
                    !.municipio = a.municipio, !.provincia = a.provincia,
                    !.comunidad_autonoma = a.comunidad_autonoma,
                    !.direccion_completa = a.direccion_completa]
     ELSE r : r \in table}

\* The name and coordinates last given for each code, after the stops of
\* `list` were given in order to a table whose latest were `latest`
Upserted(latest, list) ==
    LET codes == {list[i].codigo : i \in 1 .. Len(list)}
        last(c) == list[CHOOSE i \in 1 .. Len(list) :
                           /\ list[i].codigo = c
                           /\ \A j \in (i + 1) .. Len(list) :
                                 list[j].codigo # c]
    IN {e \in latest : e.codigo \notin codes}
           \cup {[codigo |-> c, nombre |-> last(c).nombre,
                  latitud |-> last(c).latitud,
                  longitud |-> last(c).longitud] : c \in codes}

NoCall ==
    [op |-> "none", pc |-> "done", args |-> <<>>, at |-> 0,
     before |-> {}, work |-> {}, latest |-> {}]

\* Entry of save_paradas_batch: the connection is opened; the rows written
\* by the loop stay in the transaction (work) until the commit.
save_paradas_batch ==
    /\ lastCall.pc = "done"
    /\ lastCall' = [op |-> "save_paradas_batch", pc |-> "running",
                    args |-> <<>>, at |-> now, before |-> paradas,
                    work |-> paradas, latest |-> lastCall.latest]
    /\ UNCHANGED <<serviceVars, paradas, membershipVars, clockVars, cacheVars, jobVars>>

\* One iteration of the loop; the list is revealed one element at a time
\* (args is the part of the list processed so far).  The first statement
\* opens the transaction on the rows committed by then.
UpsertNextOf(inputs) ==
    /\ lastCall.op = "save_paradas_batch"
    /\ lastCall.pc = "running"
    /\ Len(lastCall.args) < MaxBatch
    /\ \E p \in inputs :
          LET work == IF Len(lastCall.args) = 0 THEN paradas
                      ELSE lastCall.work
          IN lastCall' = [lastCall EXCEPT
                             !.work = UpsertParada(work, p, now),
                             !.args = Append(lastCall.args, p)]
    /\ UNCHANGED <<serviceVars, paradas, membershipVars, clockVars, cacheVars, jobVars>>

UpsertNext == UpsertNextOf(StopInputs)

\* End of the list: `await db.commit()`
CommitBatch ==
    /\ lastCall.op = "save_paradas_batch"
    /\ lastCall.pc = "running"
    /\ paradas' = IF Len(lastCall.args) = 0 THEN paradas ELSE lastCall.work
    /\ lastCall' = [lastCall EXCEPT !.pc = "done", !.work = {},
                                    !.latest = Upserted(@, lastCall.args)]
    /\ UNCHANGED <<serviceVars, membershipVars, clockVars, cacheVars, jobVars>>

\* save_parada(codigo, nombre, latitud, longitud) for a stop of `inputs`
SaveParadaOf(inputs) ==
    /\ lastCall.pc = "done"
    /\ \E p \in inputs :
          /\ paradas' = SaveParada(paradas, p, now)
          /\ lastCall' = [op |-> "save_parada", pc |-> "done",
                          args |-> <<p>>, at |-> now, before |-> paradas,
                          work |-> {},
                          latest |-> Upserted(lastCall.latest, <<p>>)]
    /\ UNCHANGED <<serviceVars, membershipVars, clockVars, cacheVars, jobVars>>

save_parada == SaveParadaOf(SingleStopInputs)

update_parada_direccion ==
    /\ lastCall.pc = "done"
    /\ \E codigo \in StopCodes, a \in GeocodedAddresses :
          /\ paradas' = UpdateParadaDireccion(paradas, codigo, a)
          /\ lastCall' = [op |-> "update_parada_direccion", pc |-> "done",
                          args |-> <<[codigo |-> codigo, nombre |-> NULL,
                                      latitud |-> 0, longitud |-> 0,
                                      calle |-> a.calle,
                                      numero |-> a.numero]>>,
                          at |-> now, before |-> paradas, work |-> {},
                          latest |-> lastCall.latest]
    /\ UNCHANGED <<serviceVars, membershipVars, clockVars, cacheVars, jobVars>>

(***************************************************************************)
(* The clock                                                               *)
(***************************************************************************)
\* The instants (seconds) at which calls are made: around the 1-minute TTL
\* and around the 30-day TTL
Instants == {0, 30, 60, 29 * 86400, 30 * 86400}
StoreInstants == {0, 30}

\* Time passes between two calls: the clock moves to a later instant
Advance(instants) == \E t \in instants : t > now /\ now' = t

TickStore ==
    /\ lastCall.pc = "done"
    /\ Advance(StoreInstants)
    /\ UNCHANGED <<serviceVars, membershipVars, paradasVars, cacheVars, jobVars>>

(***************************************************************************)
(* The caches: tiempos_cache (TTL 1 minute), direcciones_cache (30 days)   *)
(***************************************************************************)
CACHE_TTL_MINUTES == 1
CACHE_DIRECCIONES_TTL_DIAS == 30

\* timedelta(minutes=CACHE_TTL_MINUTES), timedelta(days=...), in seconds
TiemposTTL == CACHE_TTL_MINUTES * 60
DireccionesTTL == CACHE_DIRECCIONES_TTL_DIAS * 86400

\* Stop codes, coordinates (1e-5 degrees) and payloads used with the caches
CacheCodes == {"43"}
CacheCoords ==
    {[lat |-> 3738961, lon |-> -598427],
     [lat |-> 3738959, lon |-> -598427],
     [lat |-> 3738959, lon |-> -598424]}
TiemposPayloads == {"tiempos-A"}
DireccionPayloads == {"direccion-A", "direccion-B"}

\* The stored text of a payload.  json.dumps yields a JSON document of the
\* payload; a text that is no JSON document makes json.loads raise.
JsonDumps(payload) == [enc |-> "json", doc |-> payload]
Garbage == [enc |-> "garbage", doc |-> "{"]
Decodable(text) == text.enc = "json"
JsonLoads(text) == text.doc

\* Mutant of Round4: truncation towards minus infinity instead of rounding
Round4_Floor(x) == x \div 10

\* Mutant of Round4: the fifth decimal is cut off (truncation towards zero)
Round4_Truncate(x) == IF x >= 0 THEN x \div 10 ELSE -((-x) \div 10)

\* round(x, 4) on a coordinate given in 1e-5 degrees; the result is in 1e-4
\* degrees.  Ties go to the even neighbour.
Round4(x) ==
    LET q == x \div 10
        r == x % 10
    IN  IF r < 5 THEN q
        ELSE IF r > 5 THEN q + 1
        ELSE IF q % 2 = 0 THEN q ELSE q + 1

\* Mutant of TiemposFresh: an entry exactly one TTL old is still served
TiemposFresh_Inclusive(t, cached_at) == t - cached_at <= TiemposTTL

\* `datetime.now() - cached_at < timedelta(minutes=CACHE_TTL_MINUTES)`
TiemposFresh(t, cached_at) == t - cached_at < TiemposTTL

\* `datetime.now() - cached_at < timedelta(days=CACHE_DIRECCIONES_TTL_DIAS)`
DireccionFresh(t, cached_at) == t - cached_at < DireccionesTTL

\* SELECT * FROM tiempos_cache WHERE parada_codigo = ?
TiemposRows(table, codigo) == {r \in table : r.parada_codigo = codigo}

\* SELECT * FROM direcciones_cache WHERE latitud = ? AND longitud = ?
DireccionRows(table, lat_r, lon_r) ==
    {r \in table : r.latitud = lat_r /\ r.longitud = lon_r}

\* INSERT OR REPLACE INTO tiempos_cache: the row of the key is replaced
UpsertTiempos(table, codigo, text, t) ==
    {r \in table : r.parada_codigo # codigo}
        \cup {[parada_codigo |-> codigo, tiempos_json |-> text,
               cached_at |-> t]}

\* INSERT OR REPLACE INTO direcciones_cache, keyed by the rounded pair
UpsertDireccion(table, lat_r, lon_r, text, t) ==
    {r \in table : ~(r.latitud = lat_r /\ r.longitud = lon_r)}
        \cup {[latitud |-> lat_r, longitud |-> lon_r,
               direccion_json |-> text, cached_at |-> t]}

\* Mutant of CorruptRowDeleted: the corrupt row is never deleted
CorruptRowDeleted_Never(fresh, text) == FALSE

\* The except branch of both readers: the row is deleted when the TTL check
\* passed and json.loads raised JSONDecodeError
CorruptRowDeleted(fresh, text) == fresh /\ ~Decodable(text)

\* What both readers return for the fetched row: the decoded payload when
\* the TTL check passes and the text decodes, None otherwise
ReadResult(fresh, text) ==
    IF fresh /\ Decodable(text) THEN JsonLoads(text) ELSE NULL

NoRet ==
    [op |-> "none", codigo |-> "", lat |-> 0, lon |-> 0, found |-> FALSE,
     text |-> Garbage, cached_at |-> 0, at |-> 0, result |-> NULL]

save_tiempos_cache ==
    /\ Len(history) < MaxWrites
    /\ \E codigo \in CacheCodes, payload \in TiemposPayloads :
          /\ tiempos_cache' =
                UpsertTiempos(tiempos_cache, codigo, JsonDumps(payload), now)
          /\ ret' = NoRet
          /\ history' = Append(history,
                [op |-> "save_tiempos", codigo |-> codigo, lat |-> 0,
                 lon |-> 0, payload |-> payload, at |-> now])
    /\ UNCHANGED <<serviceVars, direcciones_cache, membershipVars, paradasVars, clockVars,
                   jobVars>>

get_cached_tiempos ==
    /\ \E codigo \in CacheCodes :
          LET rows == TiemposRows(tiempos_cache, codigo) IN
          IF rows = {}
          THEN /\ ret' = [NoRet EXCEPT !.op = "get_tiempos",
                                       !.codigo = codigo, !.at = now]
               /\ UNCHANGED tiempos_cache
          ELSE LET row == CHOOSE r \in rows : TRUE
                   fresh == TiemposFresh(now, row.cached_at)
               IN  /\ ret' = [op |-> "get_tiempos", codigo |-> codigo,
                              lat |-> 0, lon |-> 0, found |-> TRUE,
                              text |-> row.tiempos_json,
                              cached_at |-> row.cached_at, at |-> now,
                              result |-> ReadResult(fresh, row.tiempos_json)]
                   /\ tiempos_cache' =
                         IF CorruptRowDeleted(fresh, row.tiempos_json)
                         THEN tiempos_cache \ rows
                         ELSE tiempos_cache
    /\ UNCHANGED <<serviceVars, direcciones_cache, history, membershipVars, paradasVars,
                   clockVars, jobVars>>

save_direccion_cache ==
    /\ Len(history) < MaxWrites
    /\ \E c \in CacheCoords, payload \in DireccionPayloads :
          /\ direcciones_cache' =
                UpsertDireccion(direcciones_cache, Round4(c.lat),
                                Round4(c.lon), JsonDumps(payload), now)
          /\ ret' = NoRet
          /\ history' = Append(history,
                [op |-> "save_direccion", codigo |-> "", lat |-> c.lat,
                 lon |-> c.lon, payload |-> payload, at |-> now])
    /\ UNCHANGED <<serviceVars, tiempos_cache, membershipVars, paradasVars, clockVars,
                   jobVars>>

get_cached_direccion ==
    /\ \E c \in CacheCoords :
          LET lat == c.lat
              lon == c.lon
              rows == DireccionRows(direcciones_cache, Round4(lat), Round4(lon))
          IN
          IF rows = {}
          THEN /\ ret' = [NoRet EXCEPT !.op = "get_direccion", !.lat = lat,
                                       !.lon = lon, !.at = now]
               /\ UNCHANGED direcciones_cache
          ELSE LET row == CHOOSE r \in rows : TRUE
                   fresh == DireccionFresh(now, row.cached_at)
               IN  /\ ret' = [op |-> "get_direccion", codigo |-> "",
                              lat |-> lat, lon |-> lon, found |-> TRUE,
                              text |-> row.direccion_json,
                              cached_at |-> row.cached_at, at |-> now,
                              result |-> ReadResult(fresh, row.direccion_json)]
                   /\ direcciones_cache' =
                         IF CorruptRowDeleted(fresh, row.direccion_json)
                         THEN direcciones_cache \ rows
                         ELSE direcciones_cache
    /\ UNCHANGED <<serviceVars, tiempos_cache, history, membershipVars, paradasVars,
                   clockVars, jobVars>>

\* A write to a cache table made outside the cache functions (the tests
\* write rows with raw SQL): the stored text of a row stops being JSON.
CorruptTiempos ==
    /\ Len(history) < MaxWrites
    /\ \E row \in tiempos_cache :
          /\ Decodable(row.tiempos_json)
          /\ tiempos_cache' = (tiempos_cache \ {row})
                \cup {[row EXCEPT !.tiempos_json = Garbage]}
          /\ history' = Append(history,
                [op |-> "raw_tiempos", codigo |-> row.parada_codigo,
                 lat |-> 0, lon |-> 0, payload |-> NULL, at |-> now])
    /\ ret' = NoRet
    /\ UNCHANGED <<serviceVars, direcciones_cache, membershipVars, paradasVars, clockVars,
                   jobVars>>

CorruptDireccion ==
    /\ Len(history) < MaxWrites
    /\ \E row \in direcciones_cache :
          /\ Decodable(row.direccion_json)
          /\ direcciones_cache' = (direcciones_cache \ {row})
                \cup {[row EXCEPT !.direccion_json = Garbage]}
          /\ history' = Append(history,
                [op |-> "raw_direccion", codigo |-> "",
                 lat |-> row.latitud * 10, lon |-> row.longitud * 10,
                 payload |-> NULL, at |-> now])
    /\ ret' = NoRet
    /\ UNCHANGED <<serviceVars, tiempos_cache, membershipVars, paradasVars, clockVars,
                   jobVars>>

TickCache ==
    /\ Advance(Instants)
    /\ UNCHANGED <<serviceVars, membershipVars, paradasVars, cacheVars, jobVars>>

(***************************************************************************)
(* scheduler._run_weekly_sync                                              *)
(***************************************************************************)
\* The four service calls of the job, in program order
Phases == <<"sync_paradas", "sync_lineas", "sync_paradas_lineas",
            "sync_direcciones">>

PhaseIndex(phase) == CHOOSE i \in 1 .. Len(Phases) : Phases[i] = phase

\* Every call sits in its own `try: ... except Exception:` block
Catches(phase) == TRUE

\* Mutant of AbortsOnFailure: no except block returns
AbortsOnFailure_Never(phase) == FALSE

\* Mutant of AbortsOnFailure: every except block returns
AbortsOnFailure_Always(phase) == TRUE

\* The except block of the stop sync ends with `return`; the others fall
\* through to the next call
AbortsOnFailure(phase) == phase = "sync_paradas"

WeeklyIdle ==
    [pc |-> "idle", phase |-> "none", log |-> <<>>, propagated |-> FALSE,
     past |-> <<>>]

\* Runs of the job started so far
RunsStarted(w) == IF w.pc = "idle" THEN 0 ELSE Len(w.past) + 1

\* The cron trigger fires (one instance of the job at a time)
run_weekly_sync ==
    /\ weekly.pc \in {"idle", "returned"}
    /\ RunsStarted(weekly) < MaxRuns
    /\ weekly' = [pc |-> "calling", phase |-> Phases[1], log |-> <<>>,
                  propagated |-> FALSE,
                  past |-> IF weekly.pc = "idle" THEN weekly.past
                           ELSE Append(weekly.past, weekly.log)]
    /\ UNCHANGED <<serviceVars, membershipVars, paradasVars, clockVars, cacheVars, retry>>

\* `await tussam_service.<phase>()` is entered
CallPhase ==
    /\ weekly.pc = "calling"
    /\ weekly' = [weekly EXCEPT
                     !.pc = "awaiting",
                     !.log = Append(weekly.log,
                                    [phase |-> weekly.phase, ev |-> "call"])]
    /\ UNCHANGED <<serviceVars, membershipVars, paradasVars, clockVars, cacheVars, retry>>

\* Where the job goes after the call of `phase` ended
AfterPhase(w, phase) ==
    IF PhaseIndex(phase) < Len(Phases)
    THEN [w EXCEPT !.pc = "calling", !.phase = Phases[PhaseIndex(phase) + 1]]
    ELSE [w EXCEPT !.pc = "returned", !.phase = "none"]

\* The awaited call returns, or raises an Exception
EndPhase ==
    /\ weekly.pc = "awaiting"
    /\ LET phase == weekly.phase IN
       \/ weekly' = AfterPhase(
             [weekly EXCEPT !.log = Append(weekly.log,
                                [phase |-> phase, ev |-> "ok"])], phase)
       \/ LET w == [weekly EXCEPT !.log = Append(weekly.log,
                                     [phase |-> phase, ev |-> "raised"])]
          IN  weekly' =
                 IF ~Catches(phase)
                 THEN [w EXCEPT !.pc = "returned", !.phase = "none",
                                !.propagated = TRUE]
                 ELSE IF AbortsOnFailure(phase)
                 THEN [w EXCEPT !.pc = "returned", !.phase = "none"]
                 ELSE AfterPhase(w, phase)
    /\ UNCHANGED <<serviceVars, membershipVars, paradasVars, clockVars, cacheVars, retry>>

(***************************************************************************)
(* TussamService._get_with_retry                                           *)
(***************************************************************************)
max_retries == 3

\* What one `await self.client.get(url)` yields: a response with a status,
\* or an exception (timeout, connection error)
Statuses == {200, 404, 504, 429, 500, 502, 503}
Responses ==
    {[kind |-> "status", status |-> st] : st \in Statuses}
        \cup {[kind |-> "exception", status |-> 0]}

\* Mutant of IsRetryable: 404 is retried as well
IsRetryable_With404(status) == status \in {404, 429, 500, 502, 503}

\* `resp.status_code in retryable`
IsRetryable(status) == status \in {429, 500, 502, 503}

\* Mutant of Retried: an exception of client.get is retried like a 429
Retried_WithExceptions(resp) ==
    resp.kind = "exception" \/ IsRetryable(resp.status)

\* The attempt is retried: client.get returned (an exception of client.get
\* leaves the loop at once, nothing catches it) and the status is retryable
Retried(resp) == resp.kind = "status" /\ IsRetryable(resp.status)

\* Mutant of RaisesForStatus: only the client errors (4xx) raise
RaisesForStatus_ClientOnly(status) == status >= 400 /\ status < 500

\* resp.raise_for_status() raises for the error statuses
RaisesForStatus(status) == status >= 400

\* `wait = 2 ** (attempt + 1)`
BackoffWait(attempt) == 2 ^ (attempt + 1)

RetryIdle ==
    [pc |-> "idle", attempt |-> 0, gets |-> <<>>, sleeps |-> <<>>,
     result |-> 0, error |-> "none"]

get_with_retry ==
    /\ retry.pc \in {"idle", "returned", "raised"}
    /\ retry' = [RetryIdle EXCEPT !.pc = "requesting"]
    /\ UNCHANGED <<serviceVars, membershipVars, paradasVars, clockVars, cacheVars, weekly>>

\* `resp = await self.client.get(url)` and the tests on resp that follow
Get ==
    /\ retry.pc = "requesting"
    /\ \E resp \in Responses :
          LET r == [retry EXCEPT !.gets = Append(retry.gets, resp)] IN
          retry' =
             IF Retried(resp)
             THEN [r EXCEPT !.pc = "sleeping"]
             ELSE IF resp.kind = "exception"
             THEN [r EXCEPT !.pc = "raised", !.error = "exception"]
             ELSE IF RaisesForStatus(resp.status)
             THEN [r EXCEPT !.pc = "raised", !.error = "status",
                            !.result = resp.status]
             ELSE [r EXCEPT !.pc = "returned", !.result = resp.status]
    /\ UNCHANGED <<serviceVars, membershipVars, paradasVars, clockVars, cacheVars, weekly>>

\* `await asyncio.sleep(wait); continue`, and after the last attempt the
\* final `resp.raise_for_status()` on the last response
Sleep ==
    /\ retry.pc = "sleeping"
    /\ LET r == [retry EXCEPT
                    !.sleeps = Append(retry.sleeps, BackoffWait(retry.attempt)),
                    !.attempt = retry.attempt + 1]
           last == retry.gets[Len(retry.gets)]
       IN  retry' =
              IF r.attempt < max_retries
              THEN [r EXCEPT !.pc = "requesting"]
              ELSE IF RaisesForStatus(last.status)
              THEN [r EXCEPT !.pc = "raised", !.error = "status",
                             !.result = last.status]
              ELSE [r EXCEPT !.pc = "returned", !.result = last.status]
    /\ UNCHANGED <<serviceVars, membershipVars, paradasVars, clockVars, cacheVars, weekly>>

(***************************************************************************)
(* POST /sync/all                                                          *)
(***************************************************************************)
\* The three awaits of the handler, in the order of its statements
SyncAllSteps ==
    <<"sync_paradas_from_api", "sync_lineas_from_api",
      "sync_paradas_lineas_from_api">>

\* The counts a sync returns
SyncCounts == 0..3

\* Mutant of Propagates: each await stands in a try block that swallows
Propagates_Swallowed(step) == FALSE

\* No await of the handler stands in a try block: an exception raised by a
\* step leaves the handler
Propagates(step) == TRUE

SyncAllIdle == [pc |-> "idle", step |-> 0, log |-> <<>>, counts |-> <<>>]

\* The request passed verify_sync_key and the handler starts
sync_all ==
    /\ syncall.pc \in {"idle", "returned", "raised"}
    /\ syncall' = [SyncAllIdle EXCEPT !.pc = "calling", !.step = 1]
    /\ UNCHANGED <<laterVars, cercanas, topo, nearby, arrivals, membershipVars, paradasVars, clockVars, cacheVars, jobVars>>

\* `await tussam_service.<step>()` is entered
CallStep ==
    /\ syncall.pc = "calling"
    /\ syncall' = [syncall EXCEPT
                      !.pc = "awaiting",
                      !.log = Append(syncall.log,
                                 [step |-> SyncAllSteps[syncall.step],
                                  ev |-> "call"])]
    /\ UNCHANGED <<laterVars, cercanas, topo, nearby, arrivals, membershipVars, paradasVars, clockVars, cacheVars, jobVars>>

\* Where the handler goes after the await of step number k
AfterStep(s, k) ==
    IF k < Len(SyncAllSteps)
    THEN [s EXCEPT !.pc = "calling", !.step = k + 1]
    ELSE [s EXCEPT !.pc = "returned", !.step = 0]

\* The awaited sync returns its count, or raises
EndStep ==
    /\ syncall.pc = "awaiting"
    /\ LET k == syncall.step
           name == SyncAllSteps[k]
       IN
       \/ \E count \in SyncCounts :
             syncall' = AfterStep(
                [syncall EXCEPT
                    !.log = Append(syncall.log, [step |-> name, ev |-> "ok"]),
                    !.counts = Append(syncall.counts, count)], k)
       \/ LET s == [syncall EXCEPT
                       !.log = Append(syncall.log,
                                  [step |-> name, ev |-> "raised"])]
          IN  syncall' =
                 IF Propagates(name)
                 THEN [s EXCEPT !.pc = "raised", !.step = 0]
                 ELSE AfterStep(s, k)
    /\ UNCHANGED <<laterVars, cercanas, topo, nearby, arrivals, membershipVars, paradasVars, clockVars, cacheVars, jobVars>>

(***************************************************************************)
(* TussamService.sync_paradas_from_api                                     *)
(***************************************************************************)
\* Items of result.lineasDisponibles, reduced to the numeric id `linea`
\* (0 when the item has none), and the lists the upstream answers with
TopoLineasResponses == {<<>>, <<1>>, <<0, 1>>, <<1, 2>>}

\* A node of a nodosLinea result. posicion = FALSE is `"posicion": null`,
\* on which `posicion.get` raises; codigo "" is a node without code;
\* coordinates are latitudE6/longitudE6 (0 when missing).
Nodo(codigo, texto, latitudE6, longitudE6, posicion) ==
    [codigo |-> codigo, texto |-> texto, latitudE6 |-> latitudE6,
     longitudE6 |-> longitudE6, posicion |-> posicion]

N43a == Nodo("43", "Plaza Nueva", 37389000, -5984000, TRUE)
N43b == Nodo("43", "Pza. Nueva", 37412000, -5982000, TRUE)
N44a == Nodo("44", "Plaza Nueva", 37389000, -5984000, TRUE)
N44b == Nodo("44", "Pza. Nueva", 37412000, -5982000, TRUE)
N44NoCoords == Nodo("44", "Plaza Nueva", 0, -5984000, TRUE)
NNoCode == Nodo("", "Plaza Nueva", 37389000, -5984000, TRUE)
N44Null == Nodo("44", "Plaza Nueva", 0, 0, FALSE)

\* The nodosLinea results the upstream answers with
TopoNodosResponses ==
    {<<>>, <<N43a>>, <<N43b, N44a>>, <<NNoCode, N44b>>,
     <<N44NoCoords, N43a>>, <<N43b, N44Null, N44a>>}

\* `latitudE6 / 1000000`, a coordinate in 1e-5 degrees (the E6 values of the
\* nodes are multiples of 10)
FromE6(e6) == IF e6 >= 0 THEN e6 \div 10 ELSE -((-e6) \div 10)

\* `if not linea_num: continue`, then `for sentido in [1, 2]`
RECURSIVE TopoIterations(_)
TopoIterations(lineas) ==
    IF lineas = <<>> THEN <<>>
    ELSE IF Head(lineas) = 0 THEN TopoIterations(Tail(lineas))
    ELSE <<[linea |-> Head(lineas), sentido |-> 1],
           [linea |-> Head(lineas), sentido |-> 2]>>
         \o TopoIterations(Tail(lineas))

\* Mutant of InTodas: a code already collected is collected again
InTodas_Never(todas, codigo) == FALSE

\* `codigo in todas_paradas`
InTodas(todas, codigo) == \E i \in 1..Len(todas) : todas[i].codigo = codigo

\* `for nodo in nodos:` of one line/direction. todas is todas_paradas in
\* insertion order; raised tells that the loop was left by an exception.
RECURSIVE AddNodos(_, _)
AddNodos(todas, nodos) ==
    IF nodos = <<>> THEN [todas |-> todas, raised |-> FALSE]
    ELSE LET nodo == Head(nodos) IN
         IF nodo.codigo = "" \/ InTodas(todas, nodo.codigo)
         THEN AddNodos(todas, Tail(nodos))
         ELSE IF ~nodo.posicion
         THEN [todas |-> todas, raised |-> TRUE]
         ELSE LET lat == FromE6(nodo.latitudE6)
                  lon == FromE6(nodo.longitudE6)
              IN  IF lat # 0 /\ lon # 0
                  THEN AddNodos(
                          Append(todas,
                                 [codigo |-> nodo.codigo,
                                  nombre |-> nodo.texto,
                                  latitud |-> lat, longitud |-> lon,
                                  calle |-> NULL, numero |-> NULL]),
                          Tail(nodos))
                  ELSE AddNodos(todas, Tail(nodos))

\* save_paradas_batch(paradas) as one transaction: the loop, then the commit
RECURSIVE SaveParadasBatch(_, _, _)
SaveParadasBatch(table, list, t) ==
    IF list = <<>> THEN table
    ELSE SaveParadasBatch(UpsertParada(table, Head(list), t), Tail(list), t)

\* Mutant of CatchesFetchFailure: the failure of a line/direction is not
\* caught
CatchesFetchFailure_Never(it) == FALSE

\* `except Exception as e: logger.warning(...); continue` around the fetch
\* and the loop over its nodes
CatchesFetchFailure(it) == TRUE

TopoIdle ==
    [pc |-> "idle", todo |-> <<>>, todas |-> <<>>, fetched |-> <<>>,
     before |-> {}, ret |-> 0, error |-> "none"]

\* Start of the sync: the line list is fetched with client.get and
\* raise_for_status, outside any try block
sync_paradas_from_api ==
    /\ topo.pc \in {"idle", "returned", "raised"}
    /\ lastCall.pc = "done"
    /\ \/ topo' = [TopoIdle EXCEPT !.pc = "raised", !.error = "lineas"]
       \/ \E lineas \in TopoLineasResponses :
             topo' = [TopoIdle EXCEPT !.pc = "fetching",
                                      !.todo = TopoIterations(lineas),
                                      !.before = paradas]
    /\ UNCHANGED <<laterVars, cercanas, syncall, nearby, arrivals, membershipVars, paradasVars, clockVars, cacheVars, jobVars>>

\* One (linea, sentido) iteration: the fetch raises (client.get, or
\* raise_for_status, or json), or it answers and the nodes are collected
FetchNodosLinea ==
    /\ topo.pc = "fetching"
    /\ topo.todo # <<>>
    /\ LET it == Head(topo.todo)
           Skip(t, outcome) ==
               IF CatchesFetchFailure(it)
               THEN [t EXCEPT !.todo = Tail(topo.todo),
                              !.fetched = Append(topo.fetched, outcome)]
               ELSE [t EXCEPT !.pc = "raised", !.error = "nodos", !.todo = <<>>,
                              !.fetched = Append(topo.fetched, outcome)]
       IN
       \/ topo' = Skip(topo, [it |-> it, ok |-> FALSE, nodos |-> <<>>])
       \/ \E nodos \in TopoNodosResponses :
             LET r == AddNodos(topo.todas, nodos)
                 t == [topo EXCEPT !.todas = r.todas]
             IN  topo' =
                    IF r.raised
                    THEN Skip(t, [it |-> it, ok |-> FALSE, nodos |-> nodos])
                    ELSE [t EXCEPT
                             !.todo = Tail(topo.todo),
                             !.fetched = Append(topo.fetched,
                                 [it |-> it, ok |-> TRUE, nodos |-> nodos])]
    /\ UNCHANGED <<laterVars, cercanas, syncall, nearby, arrivals, membershipVars, paradasVars, clockVars, cacheVars, jobVars>>

\* After the loops: save_paradas_batch(list(todas_paradas.values())), which
\* commits or raises, and `return len(todas_paradas)`
TopoSave ==
    /\ topo.pc = "fetching"
    /\ topo.todo = <<>>
    /\ lastCall.pc = "done"
    /\ \/ /\ paradas' = SaveParadasBatch(paradas, topo.todas, now)
          /\ topo' = [topo EXCEPT !.pc = "returned",
                                  !.ret = Len(topo.todas)]
       \/ /\ topo' = [topo EXCEPT !.pc = "raised", !.error = "save"]
          /\ UNCHANGED paradas
    /\ UNCHANGED <<laterVars, cercanas, syncall, nearby, arrivals, lastCall, membershipVars, clockVars, cacheVars, jobVars>>

(***************************************************************************)
(* TussamService.get_paradas_cercanas                                      *)
(***************************************************************************)
\* The point the queries are made from (1e-5 degrees)
QueryPoint == [lat |-> 3738900, lon |-> -598400]

\* Places around the query point, with what haversine (in millimetres) and
\* _calculate_bearing (in millidegrees) compute for them from the query
\* point, rounded down. The distances stand on both sides of the radii 300
\* and 500, nearer to them than half a metre.
GeoTable ==
    {[lat |-> 3739008, lon |-> -598401, mm |-> 120093, mdeg |-> 359578],
     [lat |-> 3738900, lon |-> -598264, mm |-> 120153, mdeg |-> 89999],
     [lat |-> 3738630, lon |-> -598400, mm |-> 300226, mdeg |-> 180000],
     [lat |-> 3738473, lon |-> -598576, mm |-> 499616, mdeg |-> 198134],
     [lat |-> 3738473, lon |-> -598578, mm |-> 500169, mdeg |-> 198326],
     [lat |-> 3738900, lon |-> -598400, mm |-> 0, mdeg |-> 0],
     [lat |-> 3741200, lon |-> -598200, mm |-> 2563578, mdeg |-> 3951]}

PlaceOf(lat, lon) == CHOOSE g \in GeoTable : g.lat = lat /\ g.lon = lon

\* db.haversine(lat1, lon1, lat2, lon2) from the query point, millimetres
haversine(lat1, lon1, lat2, lon2) == PlaceOf(lat2, lon2).mm

\* _calculate_bearing(lat1, lon1, lat2, lon2) from the query point,
\* millidegrees in [0, 360000)
CalculateBearing(lat1, lon1, lat2, lon2) == PlaceOf(lat2, lon2).mdeg

\* _bearing_diff: `diff = abs(b1 - b2); return min(diff, 360 - diff)`
BearingDiff(bearing1, bearing2) ==
    LET diff == IF bearing1 >= bearing2 THEN bearing1 - bearing2
                ELSE bearing2 - bearing1
    IN  IF diff <= 360000 - diff THEN diff ELSE 360000 - diff

\* Python's round(x) of a non-negative x given in thousandths: to the
\* nearest integer, a half going to the even one
PyRound(thousandths) ==
    LET q == thousandths \div 1000
        r == thousandths % 1000
    IN  IF r < 500 THEN q
        ELSE IF r > 500 THEN q + 1
        ELSE IF q % 2 = 0 THEN q ELSE q + 1

\* The stop codes in the order of `ORDER BY codigo` (codigo is TEXT: the
\* order is that of the strings)
CodigoOrder == <<"100", "43", "44", "45">>

\* The stops save_parada stores for the queries: a code at one or two of
\* the places
NearbyStopInputs ==
    {[codigo |-> c, nombre |-> "Parada", latitud |-> g.lat,
      longitud |-> g.lon, calle |-> NULL, numero |-> NULL] :
        c \in {"100"}, g \in {x \in GeoTable : x.mm \in {120153, 300226}}}
    \cup
    {[codigo |-> c, nombre |-> "Parada", latitud |-> g.lat,
      longitud |-> g.lon, calle |-> NULL, numero |-> NULL] :
        c \in {"43"}, g \in {x \in GeoTable : x.mm \in {120093, 499616}}}
    \cup
    {[codigo |-> c, nombre |-> "Parada", latitud |-> g.lat,
      longitud |-> g.lon, calle |-> NULL, numero |-> NULL] :
        c \in {"44"}, g \in {x \in GeoTable : x.mm \in {300226, 500169}}}
    \cup
    {[codigo |-> c, nombre |-> "Parada", latitud |-> g.lat,
      longitud |-> g.lon, calle |-> NULL, numero |-> NULL] :
        c \in {"45"}, g \in {x \in GeoTable : x.mm \in {120093}}}

\* The radii (metres) and the bearings (millidegrees) of the queries
Radios == {300, 500}
NoBearing == -1          \* bearing = None
Bearings == {NoBearing, 0, 45000}
NoKey == -1              \* the dict has no such key

\* The values of bearing_tolerance (degrees, 0 to 180): the default and the
\* widest
Tolerances == {60, 180}

\* get_all_paradas_from_db: SELECT * FROM paradas ORDER BY codigo
get_all_paradas_from_db(table) ==
    LET codes == SelectSeq(CodigoOrder, LAMBDA c : HasParada(table, c))
    IN  [i \in 1..Len(codes) |-> ParadaOf(table, codes[i])]

\* Mutant of WithinRadio: the rounded distance is compared
WithinRadio_Rounded(distancia, radio) == PyRound(distancia) <= radio

\* `if distancia <= radio:`
WithinRadio(distancia, radio) == distancia <= radio * 1000

\* Mutant of BearingGiven: `if bearing:`
BearingGiven_Truthy(bearing) == bearing # NoBearing /\ bearing # 0

\* `if bearing is not None`
BearingGiven(bearing) == bearing # NoBearing

\* parada_copy of one stop within the radius
ParadaCopy(parada, lat, lon, bearing) ==
    LET distancia == haversine(lat, lon, parada.latitud, parada.longitud)
        parada_bearing ==
            CalculateBearing(lat, lon, parada.latitud, parada.longitud)
    IN  [parada |-> parada,
         distancia |-> PyRound(distancia),
         bearing |-> IF BearingGiven(bearing)
                     THEN PyRound(parada_bearing) ELSE NoKey,
         bearing_diff |-> IF BearingGiven(bearing)
                          THEN PyRound(BearingDiff(bearing, parada_bearing))
                          ELSE NoKey]

\* `for parada in all_paradas: if distancia <= radio: cercanas.append(...)`
Cercanas(all, lat, lon, radio, bearing) ==
    LET near == SelectSeq(all, LAMBDA p :
                    WithinRadio(haversine(lat, lon, p.latitud, p.longitud),
                                radio))
    IN  [i \in 1..Len(near) |-> ParadaCopy(near[i], lat, lon, bearing)]

\* sorted(list, key=Key): ascending and stable. The element at index i goes
\* behind the elements of smaller key and the earlier ones of equal key.
Sorted(list, Key(_)) ==
    LET n == Len(list)
        Rank(i) ==
            1 + Cardinality({j \in 1..n :
                                \/ Key(list[j]) < Key(list[i])
                                \/ Key(list[j]) = Key(list[i]) /\ j < i})
    IN  [k \in 1..n |-> list[CHOOSE i \in 1..n : Rank(i) = k]]

\* `key=lambda x: x.get("bearing_diff", 999)`
BearingDiffKey(x) == IF x.bearing_diff = NoKey THEN 999 ELSE x.bearing_diff

\* The value get_paradas_cercanas returns
ParadasCercanas(table, lat, lon, radio, bearing) ==
    LET within ==
            Cercanas(get_all_paradas_from_db(table), lat, lon, radio, bearing)
    IN  IF BearingGiven(bearing)
        THEN Sorted(within, BearingDiffKey)
        ELSE Sorted(within, LAMBDA x : x.distancia)

NearbyIdle ==
    [op |-> "none", lat |-> 0, lon |-> 0, radio |-> 0, bearing |-> NoBearing,
     bearing_tolerance |-> 0, table |-> {}, result |-> <<>>]

\* save_parada for the stops of the queries
save_parada_cercana == SaveParadaOf(NearbyStopInputs)

\* The parameter bearing_tolerance is received and passed on by the
\* handler of /paradas/cercanas; no statement of the method reads it
get_paradas_cercanas ==
    /\ \E radio \in Radios, bearing \in Bearings,
          bearing_tolerance \in Tolerances :
          nearby' = [op |-> "get_paradas_cercanas",
                     lat |-> QueryPoint.lat, lon |-> QueryPoint.lon,
                     radio |-> radio, bearing |-> bearing,
                     bearing_tolerance |-> bearing_tolerance,
                     table |-> paradas,
                     result |-> ParadasCercanas(paradas, QueryPoint.lat,
                                    QueryPoint.lon, radio, bearing)]
    /\ UNCHANGED <<laterVars, cercanas, syncall, topo, arrivals, membershipVars, paradasVars, clockVars, cacheVars, jobVars>>

(***************************************************************************)
(* TussamService.get_tiempos_parada                                        *)
(***************************************************************************)
\* An item of `estimaciones`: seconds until the arrival and distance
Est(segundos, distancia) ==
    [segundos |-> segundos, destino |-> "Prado", distancia |-> distancia]

Est2 == <<Est(300, 1500), Est(60, 300)>>
Est4 == <<Est(600, 3000), Est(59, 290), Est(61, 310), Est(60, 305)>>
Est5 == <<Est(60, 300), Est(3600, 9000), Est(180, 900), Est(30, 150),
          Est(600, 3100)>>
Est6 == <<Est(1200, 6000), Est(0, 10), Est(900, 4500), Est(120, 600),
          Est(1800, 9000), Est(240, 1200)>>

\* An item of result.lineasCoincidentes
LineaCoincidente(label, estimaciones) ==
    [labelLinea |-> label, estimaciones |-> estimaciones]

\* The lineasCoincidentes the upstream answers with: 0, 2, 6, 10, 11 and 17
\* estimates
TiemposResponses ==
    {<<>>,
     <<LineaCoincidente("01", Est2)>>,
     <<LineaCoincidente("01", Est4), LineaCoincidente("02", Est2)>>,
     <<LineaCoincidente("01", Est6), LineaCoincidente("02", Est4)>>,
     <<LineaCoincidente("01", Est6), LineaCoincidente("02", Est5)>>,
     <<LineaCoincidente("02", Est6), LineaCoincidente("01", Est5),
       LineaCoincidente("02", Est6)>>}

\* The membership lists stored before the queries: line 01 with one
\* direction at stop 43, with both, line 02 with direction 2, another stop
ArrivalRelaciones ==
    {<<Relacion("43", "01", 1, 0)>>,
     <<Relacion("43", "01", 1, 0), Relacion("43", "01", 2, 7)>>,
     <<Relacion("43", "02", 2, 3), Relacion("44", "01", 1, 0)>>,
     <<Relacion("44", "01", 2, 0)>>}

\* The instants (seconds) of the queries, around the 1-minute TTL
ArrivalInstants == {0, 30, 60}

\* save_paradas_lineas_batch(relaciones) as one transaction that commits
RECURSIVE InsertAll(_, _)
InsertAll(work, relaciones) ==
    IF relaciones = <<>> THEN work
    ELSE InsertAll(InsertOrIgnore(work, Head(relaciones)), Tail(relaciones))

SaveParadasLineasBatch(table, relaciones) ==
    IF IsEmptyInput(relaciones) THEN table
    ELSE Commit(table, InsertAll(DeleteAll(table), relaciones))

\* get_sentidos_for_parada(codigo).get(label, []): the directions of the
\* line at the stop, ascending (ORDER BY linea_numero, sentido)
SentidosOf(table, codigo, label) ==
    LET found == {r.sentido : r \in {x \in table :
                        x.parada_codigo = codigo /\ x.linea_numero = label}}
    IN  SelectSeq(<<1, 2>>, LAMBDA d : d \in found)

SentidoNone == 0        \* sentido = None

\* Mutant of ResolveSentido: the first direction is taken when there are two
ResolveSentido_First(sentidos) ==
    IF Len(sentidos) >= 1 THEN sentidos[1] ELSE SentidoNone

\* `sentido = sentidos[0] if len(sentidos) == 1 else None`
ResolveSentido(sentidos) ==
    IF Len(sentidos) = 1 THEN sentidos[1] ELSE SentidoNone

\* The dicts appended to `tiempos` for one line
TiemposOfLinea(linea, sentido) ==
    [i \in 1..Len(linea.estimaciones) |->
        [linea |-> linea.labelLinea,
         tiempo_minutos |-> linea.estimaciones[i].segundos \div 60,
         destino |-> linea.estimaciones[i].destino,
         distancia_metros |-> linea.estimaciones[i].distancia,
         sentido |-> sentido]]

\* `for linea in lineas: ... for est in estimaciones: tiempos.append(...)`
RECURSIVE TiemposOf(_, _, _)
TiemposOf(lineas, table, codigo) ==
    IF lineas = <<>> THEN <<>>
    ELSE TiemposOfLinea(Head(lineas),
             ResolveSentido(SentidosOf(table, codigo,
                                       Head(lineas).labelLinea)))
         \o TiemposOf(Tail(lineas), table, codigo)

TiemposCap == 10

\* Mutant of SortAndCap: the list is cut before it is sorted
SortAndCap_CapFirst(tiempos) ==
    Sorted(SubSeq(tiempos, 1, IF Len(tiempos) < TiemposCap
                              THEN Len(tiempos) ELSE TiemposCap),
           LAMBDA x : x.tiempo_minutos)

\* `sorted(tiempos, key=lambda x: x["tiempo_minutos"])[:10]`
SortAndCap(tiempos) ==
    LET sorted == Sorted(tiempos, LAMBDA x : x.tiempo_minutos)
    IN  SubSeq(sorted, 1, IF Len(sorted) < TiemposCap
                          THEN Len(sorted) ELSE TiemposCap)

\* result_data built from the upstream answer
ResultData(codigo, lineas, table) ==
    [parada |-> codigo, nombre |-> "Plaza Nueva",
     tiempos |-> SortAndCap(TiemposOf(lineas, table, codigo))]

\* Mutant of ReadsCache: force_refresh is ignored
ReadsCache_Always(force_refresh) == TRUE

\* `if not force_refresh:` the cache is read first
ReadsCache(force_refresh) == ~force_refresh

\* db.get_cached_tiempos(codigo) at instant t: whether it returns an entry
\* (`if cached`), the entry, and the table it leaves
CachedTiempos(table, codigo, t) ==
    LET rows == TiemposRows(table, codigo) IN
    IF rows = {}
    THEN [hit |-> FALSE, value |-> NULL, table |-> table]
    ELSE LET row == CHOOSE r \in rows : TRUE
             fresh == TiemposFresh(t, row.cached_at)
         IN  [hit |-> fresh /\ Decodable(row.tiempos_json),
              value |-> ReadResult(fresh, row.tiempos_json),
              table |-> IF CorruptRowDeleted(fresh, row.tiempos_json)
                        THEN table \ rows ELSE table]

\* Mutant of CatchesUpstreamFailure: a failed lookup counts as an answer
\* without lines
CatchesUpstreamFailure_AsEmpty == TRUE

\* `response = await self._get_with_retry(url)` stands in no try block
CatchesUpstreamFailure == FALSE

ArrivalsIdle ==
    [pc |-> "idle", codigo |-> "", force_refresh |-> FALSE, lookups |-> 0,
     upstream |-> <<>>, membership |-> {}, cache |-> {}, at |-> 0,
     result |-> NULL, stored |-> FALSE, failed |-> FALSE,
     last |-> [valid |-> FALSE, codigo |-> "", result |-> NULL, at |-> 0],
     prior |-> [valid |-> FALSE, codigo |-> "", result |-> NULL, at |-> 0]]

\* Entry of get_tiempos_parada(codigo, force_refresh): the cache is read
\* unless force_refresh, and a cached entry is returned at once
get_tiempos_parada ==
    /\ arrivals.pc \in {"idle", "returned", "raised"}
    /\ \E codigo \in CacheCodes, force_refresh \in BOOLEAN :
          LET cached == CachedTiempos(tiempos_cache, codigo, now)
              a == [ArrivalsIdle EXCEPT
                       !.codigo = codigo, !.force_refresh = force_refresh,
                       !.cache = tiempos_cache, !.at = now,
                       !.last = arrivals.last, !.prior = arrivals.last]
          IN  IF ReadsCache(force_refresh)
              THEN /\ tiempos_cache' = cached.table
                   /\ arrivals' =
                         IF cached.hit
                         THEN [a EXCEPT !.pc = "returned",
                                        !.result = cached.value]
                         ELSE [a EXCEPT !.pc = "fetching"]
              ELSE /\ UNCHANGED tiempos_cache
                   /\ arrivals' = [a EXCEPT !.pc = "fetching"]
    /\ UNCHANGED <<laterVars, cercanas, syncall, topo, nearby, direcciones_cache, ret, history,
                   membershipVars, paradasVars, clockVars, jobVars>>

\* `await self._get_with_retry(url)` raises, or answers; the directions are
\* read from paradas_lineas and result_data is built
LookupTiempos ==
    /\ arrivals.pc = "fetching"
    /\ \/ arrivals' =
             IF CatchesUpstreamFailure
             THEN [arrivals EXCEPT
                      !.pc = "saving", !.failed = TRUE,
                      !.lookups = arrivals.lookups + 1,
                      !.membership = paradas_lineas,
                      !.result = ResultData(arrivals.codigo, <<>>,
                                            paradas_lineas)]
             ELSE [arrivals EXCEPT !.pc = "raised", !.failed = TRUE,
                                   !.lookups = arrivals.lookups + 1]
       \/ \E lineas \in TiemposResponses :
             arrivals' = [arrivals EXCEPT
                             !.pc = "saving",
                             !.lookups = arrivals.lookups + 1,
                             !.upstream = lineas,
                             !.membership = paradas_lineas,
                             !.result = ResultData(arrivals.codigo, lineas,
                                                   paradas_lineas)]
    /\ UNCHANGED <<laterVars, cercanas, syncall, topo, nearby, membershipVars, paradasVars,
                   clockVars, cacheVars, jobVars>>

\* `await db.save_tiempos_cache(codigo_parada, result_data)` and the return
SaveTiempos ==
    /\ arrivals.pc = "saving"
    /\ tiempos_cache' = UpsertTiempos(tiempos_cache, arrivals.codigo,
                                      JsonDumps(arrivals.result), now)
    /\ arrivals' = [arrivals EXCEPT
                       !.pc = "returned", !.stored = TRUE,
                       !.last = [valid |-> TRUE, codigo |-> arrivals.codigo,
                                 result |-> arrivals.result, at |-> now]]
    /\ UNCHANGED <<laterVars, cercanas, syncall, topo, nearby, direcciones_cache, ret, history,
                   membershipVars, paradasVars, clockVars, jobVars>>

\* The membership table is replaced (a membership sync committed)
replace_paradas_lineas ==
    /\ \E relaciones \in ArrivalRelaciones :
          paradas_lineas' = SaveParadasLineasBatch(paradas_lineas, relaciones)
    /\ UNCHANGED <<serviceVars, tx, msync, paradasVars, clockVars, cacheVars,
                   jobVars>>

TickArrivals ==
    /\ Advance(ArrivalInstants)
    /\ UNCHANGED <<serviceVars, membershipVars, paradasVars, cacheVars, jobVars>>

(***************************************************************************)
(* GET /cercanas                                                           *)
(***************************************************************************)
\* The query parameters of the requests: the radius, max_paradas, the
\* bearing, and the default bearing_tolerance (degrees)
CercanasRadio == 500
MaxParadasArgs == {1, 3}
CercanasBearings == {NoBearing, 0}
BearingTolerance == 60

\* `tiempos_filtrados[:5]`
CercanasTiemposCap == 5

\* What `await tussam_service.get_tiempos_parada(p["codigo"])` does for one
\* stop: it raises an httpx error, raises another Exception, or returns a
\* dict whose "tiempos" is one of these lists
LookupFailures == {"httpx", "other"}
CercanasTiempos ==
    {<<>>,
     SortAndCap(TiemposOf(<<LineaCoincidente("01", Est4),
                            LineaCoincidente("02", Est2)>>, {}, "43"))}

\* Mutant of CatchesLookupFailure: only the httpx errors are caught
CatchesLookupFailure_HttpOnly(failure) == failure = "httpx"

\* `except (httpx.HTTPError, httpx.TimeoutException)` and `except Exception`
\* around the lookup: both give tiempos = {"tiempos": []}
CatchesLookupFailure(failure) == failure \in {"httpx", "other"}

\* The stops the handler selects: get_paradas_cercanas, the filter on
\* bearing_diff when a bearing is given, and `paradas[:max_paradas]`
SelectParadas(table, lat, lon, radio, bearing, max_paradas) ==
    LET found == ParadasCercanas(table, lat, lon, radio, bearing)
        kept == IF BearingGiven(bearing)
                THEN SelectSeq(found, LAMBDA x :
                                  BearingDiffKey(x) <= BearingTolerance)
                ELSE found
    IN  SubSeq(kept, 1, IF Len(kept) < max_paradas THEN Len(kept)
                        ELSE max_paradas)

\* parada_data of one selected stop
ParadaData(x, tiempos) ==
    [codigo |-> x.parada.codigo, nombre |-> x.parada.nombre,
     latitud |-> x.parada.latitud, longitud |-> x.parada.longitud,
     distancia |-> x.distancia, bearing |-> x.bearing,
     bearing_diff |-> x.bearing_diff,
     tiempos |-> SubSeq(tiempos, 1, IF Len(tiempos) < CercanasTiemposCap
                                    THEN Len(tiempos)
                                    ELSE CercanasTiemposCap)]

CercanasIdle ==
    [pc |-> "idle", paradas |-> <<>>, lookups |-> <<>>, resultado |-> <<>>]

\* The stops are stored before the requests are made
save_parada_before_requests ==
    /\ cercanas.pc = "idle"
    /\ save_parada_cercana

\* The request passed the validations and the stops are selected
get_paradas_cercanas_con_tiempos ==
    /\ cercanas.pc \in {"idle", "responded", "failed"}
    /\ \E max_paradas \in MaxParadasArgs, bearing \in CercanasBearings :
          cercanas' = [CercanasIdle EXCEPT
                          !.pc = "looping",
                          !.paradas = SelectParadas(paradas, QueryPoint.lat,
                                          QueryPoint.lon, CercanasRadio,
                                          bearing, max_paradas)]
    /\ UNCHANGED <<laterVars, syncall, topo, nearby, arrivals, membershipVars,
                   paradasVars, clockVars, cacheVars, jobVars>>

\* One iteration of `for p in paradas:`: the lookup and parada_data
LookupParada ==
    /\ cercanas.pc = "looping"
    /\ Len(cercanas.resultado) < Len(cercanas.paradas)
    /\ LET p == cercanas.paradas[Len(cercanas.resultado) + 1] IN
       \/ \E failure \in LookupFailures :
             cercanas' =
                IF CatchesLookupFailure(failure)
                THEN [cercanas EXCEPT
                         !.lookups = Append(cercanas.lookups,
                                        [ok |-> FALSE, tiempos |-> <<>>]),
                         !.resultado = Append(cercanas.resultado,
                                          ParadaData(p, <<>>))]
                ELSE [cercanas EXCEPT
                         !.pc = "failed",
                         !.lookups = Append(cercanas.lookups,
                                        [ok |-> FALSE, tiempos |-> <<>>])]
       \/ \E tiempos \in CercanasTiempos :
             cercanas' = [cercanas EXCEPT
                             !.lookups = Append(cercanas.lookups,
                                            [ok |-> TRUE, tiempos |-> tiempos]),
                             !.resultado = Append(cercanas.resultado,
                                              ParadaData(p, tiempos))]
    /\ UNCHANGED <<laterVars, syncall, topo, nearby, arrivals, membershipVars,
                   paradasVars, clockVars, cacheVars, jobVars>>

\* After the loop: response_data is returned
RespondCercanas ==
    /\ cercanas.pc = "looping"
    /\ Len(cercanas.resultado) = Len(cercanas.paradas)
    /\ cercanas' = [cercanas EXCEPT !.pc = "responded"]
    /\ UNCHANGED <<laterVars, syncall, topo, nearby, arrivals, membershipVars,
                   paradasVars, clockVars, cacheVars, jobVars>>

(***************************************************************************)
(* sync_direcciones_all and _geocode_nominatim_single                      *)
(***************************************************************************)
\* The stops a topology sync hands to save_paradas_batch (calle and numero
\* None), one of them with an empty description text
AddressStopInputs ==
    {StopInput(c, v, [calle |-> NULL, numero |-> NULL]) :
        c \in StopCodes,
        v \in {[nombre |-> "Plaza Nueva", latitud |-> 3738900,
                longitud |-> -598400],
               [nombre |-> "", latitud |-> 3738900, longitud |-> -598400]}}

\* What Nominatim answers: the call raises, or a status with the address
\* keys of the JSON body ("" for a key that is absent)
GeocodeAnswer(kind, status, road, footway, path, house_number) ==
    [kind |-> kind, status |-> status, road |-> road, footway |-> footway,
     path |-> path, house_number |-> house_number, postcode |-> "41001",
     city |-> "Sevilla", county |-> "Sevilla", state |-> "Andalucia"]

GeocodeResponses ==
    {GeocodeAnswer("exception", 0, "", "", "", ""),
     GeocodeAnswer("status", 500, "Calle B", "", "", "3"),
     GeocodeAnswer("status", 200, "Calle B", "Paseo C", "", "3"),
     GeocodeAnswer("status", 200, "", "Paseo C", "", ""),
     GeocodeAnswer("status", 200, "", "", "Senda D", "3"),
     GeocodeAnswer("status", 200, "", "", "", "3")}

\* Python's `a or b`: the first operand when it is truthy
Or(a, b) == IF a # "" /\ a # NULL THEN a ELSE b

\* f"{calle} {numero}".strip()
DireccionCompleta(calle, numero) ==
    IF numero = "" THEN calle ELSE calle \o " " \o numero

NoAddress ==
    [calle |-> NULL, numero |-> NULL, codigo_postal |-> NULL,
     municipio |-> NULL, provincia |-> NULL, comunidad_autonoma |-> NULL,
     direccion_completa |-> NULL]

\* Mutant of StreetOf: the stop's name is not used as a fallback
StreetOf_NoFallback(found, nombre) == found

\* `if not calle: calle = nombre`
StreetOf(found, nombre) == IF found = "" THEN nombre ELSE found

\* _geocode_nominatim_single: the address tuple for one stop, all None when
\* the call raised, the status is not 200 or no street is left
GeocodeNominatimSingle(codigo, nombre, r) ==
    IF r.kind = "status" /\ r.status = 200
    THEN LET found == Or(r.road, Or(r.footway, Or(r.path, "")))
             calle == StreetOf(found, nombre)
             numero == IF found = "" THEN "" ELSE r.house_number
         IN IF calle # "" /\ calle # NULL
            THEN [calle |-> calle, numero |-> numero,
                  codigo_postal |-> r.postcode, municipio |-> r.city,
                  provincia |-> r.county, comunidad_autonoma |-> r.state,
                  direccion_completa |-> DireccionCompleta(calle, numero)]
            ELSE NoAddress
    ELSE NoAddress

\* Mutant of get_paradas_sin_direccion: every stop is selected
get_paradas_sin_direccion_All(table) == get_all_paradas_from_db(table)

\* get_paradas_sin_direccion: SELECT ... WHERE calle IS NULL OR calle = ''
get_paradas_sin_direccion(table) ==
    SelectSeq(get_all_paradas_from_db(table),
              LAMBDA r : r.calle = NULL \/ r.calle = "")

\* Mutant of WriteLockHeld: a transaction never keeps other writers out
WriteLockHeld_Never == FALSE

\* SQLite admits one writer: between the first statement of a running
\* save_paradas_batch and its commit no other connection can write
WriteLockHeld ==
    /\ lastCall.op = "save_paradas_batch"
    /\ lastCall.pc = "running"
    /\ Len(lastCall.args) > 0

\* asyncio.sleep(1.1), in tenths of a second
NominatimWait == 11

\* Mutant of WaitsAfter: the wait follows every stop, the last included
WaitsAfter_Always(i, n) == TRUE

\* `if i + 1 < len(paradas): await asyncio.sleep(1.1)`, i counted from 0
WaitsAfter(i, n) == i + 1 < n

\* What one iteration adds to the trace of calls and waits
IterationTrace(codigo, i, n) ==
    <<[ev |-> "geocode", codigo |-> codigo]>>
        \o (IF WaitsAfter(i, n)
            THEN <<[ev |-> "sleep", tenths |-> NominatimWait]>>
            ELSE <<>>)

DirSyncIdle ==
    [pc |-> "idle", paradas |-> <<>>, i |-> 0, ok |-> 0, errors |-> 0,
     answers |-> <<>>, written |-> {}, stats |-> <<>>, before |-> {},
     runs |-> 0, failedRuns |-> [c \in StopCodes |-> 0], trace |-> <<>>]

dirsyncOthers ==
    <<lifecycle, tabla_lineas, syncall, topo, nearby, arrivals, cercanas, syncreq, limiter, mread,
      membershipVars, clockVars, cacheVars, jobVars>>

\* The record of a run that starts on `table`; runs and failedRuns are
\* history kept for the properties, the code keeps neither
StartAddressSync(table, runs, failedRuns) ==
    LET sin == get_paradas_sin_direccion(table)
    IN [DirSyncIdle EXCEPT
           !.pc = IF Len(sin) = 0 THEN "done" ELSE "running",
           !.paradas = sin,
           !.before = table,
           !.stats = IF Len(sin) = 0
                     THEN <<[total |-> 0, ok |-> 0, errors |-> 0]>>
                     ELSE <<>>,
           !.runs = runs,
           !.failedRuns = failedRuns]

\* Entry of sync_direcciones_all: the stops without a street are read; with
\* none the call returns at once
sync_direcciones_all ==
    /\ dirsync.pc # "running"
    /\ dirsync' = StartAddressSync(paradas, 0, DirSyncIdle.failedRuns)
    /\ UNCHANGED <<paradas, lastCall, dirsyncOthers>>

\* For each stop, the number of runs in a row, up to the run d, that
\* geocoded it without getting an address
FailedRuns(d) ==
    [c \in StopCodes |->
        IF /\ \E k \in 1 .. Len(d.answers) : d.paradas[k].codigo = c
           /\ c \notin {w.codigo : w \in d.written}
        THEN d.failedRuns[c] + 1
        ELSE 0]

\* The stops in the table before the first address sync: stop 43 with or
\* without a street, stop 44 without
save_paradas_before_address_sync ==
    /\ paradas = {}
    /\ dirsync.pc = "idle"
    /\ lastCall.pc = "done"
    /\ \E p43 \in {p \in StopInputs : p.codigo = "43" /\ p.calle # ""},
          p44 \in {p \in AddressStopInputs : p.codigo = "44"} :
          paradas' = SaveParadasBatch({}, <<p43, p44>>, now)
    /\ UNCHANGED <<dirsync, lastCall, dirsyncOthers>>

\* sync_direcciones_all run again and again (the weekly job, POST
\* /sync/direcciones), each run after the one before it ended
sync_direcciones_all_again ==
    /\ dirsync.pc \in {"idle", "done"}
    /\ paradas # {}
    /\ dirsync.runs < MaxAddressRuns
    /\ dirsync' = StartAddressSync(paradas, dirsync.runs + 1,
                                   FailedRuns(dirsync))
    /\ UNCHANGED <<paradas, lastCall, dirsyncOthers>>

\* One iteration of `for i, p in enumerate(paradas)`: the stop is geocoded
\* and, with a street, update_parada_direccion writes and commits; the
\* update raises "database is locked" when another connection keeps the
\* write lock beyond the busy timeout.  After the last stop the stats are
\* returned.
GeocodeNext ==
    /\ dirsync.pc = "running"
    /\ \E r \in GeocodeResponses, locked \in {WriteLockHeld} :
          LET p == dirsync.paradas[dirsync.i + 1]
              a == GeocodeNominatimSingle(p.codigo, p.nombre, r)
              calle == a.calle # NULL /\ a.calle # ""
              ok == IF calle THEN dirsync.ok + 1 ELSE dirsync.ok
              errors == IF calle THEN dirsync.errors
                        ELSE dirsync.errors + 1
              last == dirsync.i + 1 = Len(dirsync.paradas)
          IN IF calle /\ locked
             THEN /\ dirsync' = [dirsync EXCEPT !.pc = "raised",
                                    !.answers = Append(@, r),
                                    !.trace = Append(@,
                                        [ev |-> "geocode",
                                         codigo |-> p.codigo])]
                  /\ UNCHANGED paradas
             ELSE /\ paradas' = IF calle
                                THEN UpdateParadaDireccion(paradas,
                                                           p.codigo, a)
                                ELSE paradas
                  /\ dirsync' =
                        [dirsync EXCEPT
                            !.i = @ + 1, !.ok = ok, !.errors = errors,
                            !.answers = Append(@, r),
                            !.trace = @ \o IterationTrace(p.codigo,
                                              dirsync.i,
                                              Len(dirsync.paradas)),
                            !.written =
                                IF calle /\ HasParada(paradas, p.codigo)
                                THEN @ \cup {[codigo |-> p.codigo,
                                              address |-> a]}
                                ELSE @,
                            !.pc = IF last THEN "done" ELSE "running",
                            !.stats =
                                IF last
                                THEN <<[total |-> Len(dirsync.paradas),
                                        ok |-> ok, errors |-> errors]>>
                                ELSE <<>>]
    /\ UNCHANGED <<lastCall, dirsyncOthers>>

\* save_paradas_batch as sync_paradas_from_api calls it: no stop of the
\* list carries a street
UpsertNextTopology == UpsertNextOf(AddressStopInputs)

(***************************************************************************)
(* POST /sync/*: verify_sync_key                                           *)
(***************************************************************************)
SyncEndpoints ==
    {"/sync/paradas", "/sync/lineas", "/sync/all", "/sync/paradas-lineas",
     "/sync/direcciones"}

\* os.getenv("SYNC_API_KEY", ""): unset, or the configured key
ConfiguredKeys == {"", "secret-key-123"}

\* The X-API-Key header: absent (None), empty, wrong or right
ApiKeyHeaders == {NULL, "", "wrong-key", "secret-key-123"}

\* The environment variable ALLOW_INSECURE_SYNC: unset or "true"
InsecureSettings == {NULL, "true"}

\* `if not expected: return`, then
\* `if not api_key or not hmac.compare_digest(api_key, expected): raise`
KeyAccepted(expected, api_key) ==
    IF expected = "" THEN TRUE
    ELSE ~(api_key = NULL \/ api_key = "" \/ api_key # expected)

SyncReqIdle ==
    [pc |-> "idle", endpoint |-> "", expected |-> "", insecure |-> NULL,
     api_key |-> NULL, status |-> 0, ran |-> FALSE]

syncreqOthers ==
    <<lifecycle, tabla_lineas, syncall, topo, nearby, arrivals, cercanas, dirsync, limiter, mread,
      membershipVars, paradasVars, clockVars, cacheVars, jobVars>>

\* A request to a sync endpoint arrives
post_sync ==
    /\ syncreq.pc \in {"idle", "refused", "responded"}
    /\ \E e \in SyncEndpoints, k \in ConfiguredKeys, a \in ApiKeyHeaders,
          i \in InsecureSettings :
          syncreq' = [SyncReqIdle EXCEPT !.pc = "arrived", !.endpoint = e,
                                         !.expected = k, !.api_key = a,
                                         !.insecure = i]
    /\ UNCHANGED syncreqOthers

\* The endpoint's dependency: returns, or raises HTTPException(403)
verify_sync_key ==
    /\ syncreq.pc = "arrived"
    /\ syncreq' =
          IF KeyAccepted(syncreq.expected, syncreq.api_key)
          THEN [syncreq EXCEPT !.pc = "verified"]
          ELSE [syncreq EXCEPT !.pc = "refused", !.status = 403]
    /\ UNCHANGED syncreqOthers

\* The endpoint's body: the sync operation runs, and its count is returned
\* or its exception answers 500
RunSync ==
    /\ syncreq.pc = "verified"
    /\ \E status \in {200, 500} :
          syncreq' = [syncreq EXCEPT !.pc = "responded", !.ran = TRUE,
                                     !.status = status]
    /\ UNCHANGED syncreqOthers

(***************************************************************************)
(* RateLimitMiddleware                                                     *)
(***************************************************************************)
window == 60
MAX_DEVICE_ID_LEN == 64
MAX_BUCKETS == 50000
CleanupInterval == 300

\* A 65-character X-Device-ID
LongDeviceId ==
    "0123456789012345678901234567890123456789012345678901234567890123X"

\* The X-Device-ID header of a request (None when absent) and its client host
DeviceIds == {NULL, "", "watch-A", LongDeviceId}
ClientHosts == {"10.0.0.1"}
LimiterInstants == {0, 30, 60, 391}

\* _get_key_and_limit
GetKeyAndLimit(device_id, host) ==
    IF device_id # NULL /\ device_id # "" /\ Len(device_id) <= MAX_DEVICE_ID_LEN
    THEN [key |-> "device:" \o device_id, limit |-> device_limit]
    ELSE [key |-> "ip:" \o host, limit |-> ip_limit]

\* [t for t in bucket if now - t < self.window]
InWindow(bucket, t) == SelectSeq(bucket, LAMBDA u : t - u < window)

\* `if now - self.last_cleanup > 300 or len(self.buckets) > MAX_BUCKETS`
CleanupDue(buckets, last_cleanup, t, max_buckets) ==
    t - last_cleanup > CleanupInterval
        \/ Cardinality(DOMAIN buckets) > max_buckets

\* The buckets that stay: those with a timestamp, the last one not older
\* than the window
Cleanup(buckets, t) ==
    LET stale(k) == buckets[k] = <<>>
                        \/ t - buckets[k][Len(buckets[k])] > window
    IN [k \in {k \in DOMAIN buckets : ~stale(k)} |-> buckets[k]]

\* self.buckets[key] of a defaultdict(list)
BucketOf(buckets, key) ==
    IF key \in DOMAIN buckets THEN buckets[key] ELSE <<>>

\* Mutant of BucketFull: one request more is let through
BucketFull_OneMore(n, limit) == n > limit

\* `if len(self.buckets[key]) >= limit`
BucketFull(n, limit) == n >= limit

LimiterInit ==
    [buckets |-> <<>>, last_cleanup |-> 0, admitted |-> <<>>,
     last |-> [key |-> "", limit |-> 0, at |-> 0, status |-> 0,
               retry_after |-> NULL, forwarded |-> FALSE, prior |-> <<>>,
               device_id |-> NULL, host |-> ""]]

limiterOthers ==
    <<lifecycle, tabla_lineas, syncall, topo, nearby, arrivals, cercanas, dirsync, syncreq, mread,
      membershipVars, paradasVars, cacheVars, jobVars>>

\* dispatch: one request passes the middleware.  `admitted` keeps, for
\* every key, the timestamps of all the requests handed to call_next.
\* device_ids are the X-Device-ID headers the requests carry and
\* max_buckets the value of MAX_BUCKETS.
dispatchOf(device_ids, max_buckets) ==
    /\ \E device_id \in device_ids, host \in ClientHosts :
          LET kl == GetKeyAndLimit(device_id, host)
              key == kl.key
              swept == IF CleanupDue(limiter.buckets, limiter.last_cleanup,
                                     now, max_buckets)
                       THEN Cleanup(limiter.buckets, now)
                       ELSE limiter.buckets
              bucket == InWindow(BucketOf(swept, key), now)
              full == BucketFull(Len(bucket), kl.limit)
              stored == IF full THEN bucket ELSE Append(bucket, now)
              buckets == [k \in DOMAIN swept \cup {key} |->
                             IF k = key THEN stored ELSE swept[k]]
              prior == BucketOf(limiter.admitted, key)
          IN limiter' =
                [buckets |-> buckets,
                 last_cleanup |->
                     IF CleanupDue(limiter.buckets, limiter.last_cleanup, now,
                                   max_buckets)
                     THEN now ELSE limiter.last_cleanup,
                 admitted |->
                     IF full THEN limiter.admitted
                     ELSE [k \in DOMAIN limiter.admitted \cup {key} |->
                              IF k = key THEN Append(prior, now)
                              ELSE limiter.admitted[k]],
                 last |-> [key |-> key, limit |-> kl.limit, at |-> now,
                           status |-> IF full THEN 429 ELSE 200,
                           retry_after |-> IF full THEN "60" ELSE NULL,
                           forwarded |-> ~full, prior |-> prior,
                           device_id |-> device_id, host |-> host]]
    /\ UNCHANGED <<now, limiterOthers>>

dispatch == dispatchOf(DeviceIds, MAX_BUCKETS)

\* Requests of many devices, against a middleware whose MAX_BUCKETS is
\* MaxBuckets
CrowdDeviceIds == {"watch-A", "watch-B", "watch-C", "watch-D"}
dispatch_crowd == dispatchOf(CrowdDeviceIds, MaxBuckets)

\* time.time() moves on under the crowd: from the first window to the
\* instant after it
CrowdInstants == {0, 61}
TickCrowd ==
    /\ Advance(CrowdInstants)
    /\ UNCHANGED <<limiter, limiterOthers>>

\* time.time() moves on
TickLimiter ==
    /\ Advance(LimiterInstants)
    /\ UNCHANGED <<limiter, limiterOthers>>

(***************************************************************************)
(* get_lineas_de_parada, get_sentidos_for_parada, get_paradas_de_linea     *)
(***************************************************************************)
LineLabels == {"01"}

\* Mutant of ReadView: a reader sees the rows of a transaction in progress
ReadView_Dirty(committed, t) ==
    IF t.pc = "inserting" THEN t.work ELSE committed

\* What a SELECT on another connection sees of paradas_lineas while the
\* transaction t of save_paradas_lineas_batch may be running: the rows of
\* the last commit
ReadView(committed, t) == committed

\* SELECT DISTINCT linea_numero ... WHERE parada_codigo = ?
LineasDeParada(table, codigo) ==
    {r.linea_numero : r \in {x \in table : x.parada_codigo = codigo}}

\* SELECT linea_numero, sentido ... WHERE parada_codigo = ?, grouped by line
SentidosForParada(table, codigo) ==
    [label \in LineasDeParada(table, codigo) |->
        SentidosOf(table, codigo, label)]

\* SELECT pl.sentido, pl.orden, p.* FROM paradas_lineas pl JOIN paradas p
\* ON p.codigo = pl.parada_codigo WHERE pl.linea_numero = ?
ParadasDeLinea(table, stops, label) ==
    {[sentido |-> r.sentido, orden |-> r.orden,
      parada |-> ParadaOf(stops, r.parada_codigo)] :
        r \in {x \in table : x.linea_numero = label
                               /\ HasParada(stops, x.parada_codigo)}}

NoRead ==
    [op |-> "none", arg |-> "", result |-> {}, concurrent |-> FALSE,
     before |-> {}, input |-> <<>>, work |-> {}]

\* The record of a read made now
ReadNow(op, arg, result) ==
    [op |-> op, arg |-> arg, result |-> result,
     concurrent |-> tx.pc = "inserting", before |-> tx.before,
     input |-> tx.input, work |-> tx.work]

mreadOthers ==
    <<lifecycle, tabla_lineas, syncall, topo, nearby, arrivals, cercanas, dirsync, syncreq, limiter,
      membershipVars, paradasVars, clockVars, cacheVars, jobVars>>

get_lineas_de_parada ==
    /\ \E codigo \in StopCodes :
          mread' = ReadNow("get_lineas_de_parada", codigo,
                       LineasDeParada(ReadView(paradas_lineas, tx), codigo))
    /\ UNCHANGED mreadOthers

get_sentidos_for_parada ==
    /\ \E codigo \in StopCodes :
          mread' = ReadNow("get_sentidos_for_parada", codigo,
                       SentidosForParada(ReadView(paradas_lineas, tx),
                                         codigo))
    /\ UNCHANGED mreadOthers

get_paradas_de_linea ==
    /\ \E label \in LineLabels :
          mread' = ReadNow("get_paradas_de_linea", label,
                       ParadasDeLinea(ReadView(paradas_lineas, tx), paradas,
                                      label))
    /\ UNCHANGED mreadOthers

\* The rows handed to save_paradas_lineas_batch while readers are at work
ReadRelacionRows ==
    {Relacion("43", "01", 1, 0), Relacion("43", "01", 1, 1),
     Relacion("44", "01", 2, 0)}

\* A call of save_paradas_lineas_batch(relaciones) made while readers are
\* at work; the record of the last read starts afresh
save_paradas_lineas_batch_under_reads ==
    /\ tx.pc \in {"idle", "returned"}
    /\ \E relaciones \in SeqsUpTo(ReadRelacionRows, MaxRelaciones) :
          tx' = BeginSave(relaciones, "direct")
    /\ mread' = NoRead
    /\ UNCHANGED <<lifecycle, tabla_lineas, syncall, topo, nearby, arrivals,
                   cercanas, dirsync, syncreq, limiter, paradas_lineas, msync, paradasVars,
                   clockVars, cacheVars, jobVars>>

\* The stops the joins of get_paradas_de_linea find: stored by one
\* save_paradas_batch before any membership call or read
save_parada_before_reads ==
    /\ tx.pc = "idle"
    /\ mread.op = "none"
    /\ paradas = {}
    /\ paradas' =
          SaveParadasBatch({},
              <<StopInput("43", [nombre |-> "Plaza Nueva",
                                 latitud |-> 3738900, longitud |-> -598400],
                          [calle |-> NULL, numero |-> NULL]),
                StopInput("44", [nombre |-> "Pza. Nueva",
                                 latitud |-> 3741200, longitud |-> -598200],
                          [calle |-> NULL, numero |-> NULL])>>, now)
    /\ UNCHANGED <<lastCall, serviceVars, membershipVars, clockVars,
                   cacheVars, jobVars>>

(***************************************************************************)
(* lifespan, start_scheduler, stop_scheduler, TussamService.close          *)
(***************************************************************************)
\* The phases of _run_weekly_sync, in order
JobPhases ==
    <<"sync_paradas", "sync_lineas", "sync_paradas_lineas",
      "sync_direcciones">>

\* SYNC_ENABLED: the scheduler is started, or left alone
SyncEnabledSettings == {TRUE, FALSE}

\* `scheduler.running`
SchedulerRunning(scheduler) == scheduler = "running"

\* The process before lifespan runs: TussamService() has built the client
LifecycleInit ==
    [pc |-> "starting", scheduler |-> "off", client |-> "open", closes |-> 0,
     stopped_before_close |-> FALSE,
     job |-> "none", phase |-> 0, requests |-> 0, cancel |-> FALSE,
     late |-> 0]

lifecycleOthers ==
    <<tabla_lineas, syncall, topo, nearby, arrivals, cercanas, dirsync,
      syncreq, limiter, mread, membershipVars, paradasVars, clockVars,
      cacheVars, jobVars>>

\* lifespan up to its yield: init_db, start_scheduler
lifespan_startup ==
    /\ lifecycle.pc = "starting"
    /\ \E enabled \in SyncEnabledSettings :
          lifecycle' = [lifecycle EXCEPT
                           !.pc = "serving",
                           !.scheduler = IF enabled THEN "running" ELSE "off"]
    /\ UNCHANGED lifecycleOthers

\* The cron trigger fires: the scheduler starts _run_weekly_sync as a task
\* of the event loop
JobFires ==
    /\ SchedulerRunning(lifecycle.scheduler)
    /\ lifecycle.job \in {"none", "ended"}
    /\ lifecycle' = [lifecycle EXCEPT !.job = "running", !.phase = 1,
                                      !.requests = 0]
    /\ UNCHANGED lifecycleOthers

\* The job resumes and one of its syncs calls self.client.get(...).  On a
\* closed client the call raises; the syncs catch it with
\* `except Exception` and go on, or let it pass and the job catches it.
JobRequest ==
    /\ lifecycle.job = "running"
    /\ ~lifecycle.cancel
    /\ lifecycle.requests < MaxJobRequests
    /\ lifecycle' = [lifecycle EXCEPT
                        !.requests = @ + 1,
                        !.late = IF lifecycle.client = "closed"
                                 THEN @ + 1 ELSE @]
    /\ UNCHANGED lifecycleOthers

\* A phase of the job ends (returned or raised); the next one starts, or
\* the job ends.  A failure of the first phase ends the job.
JobPhaseEnds ==
    /\ lifecycle.job = "running"
    /\ ~lifecycle.cancel
    /\ \/ /\ lifecycle.phase < Len(JobPhases)
          /\ lifecycle' = [lifecycle EXCEPT !.phase = @ + 1, !.requests = 0]
       \/ /\ lifecycle.phase \in {1, Len(JobPhases)}
          /\ lifecycle' = [lifecycle EXCEPT !.job = "ended"]
    /\ UNCHANGED lifecycleOthers

\* lifespan after its yield, first statement: stop_scheduler().
\* scheduler.shutdown(wait=False) does not wait for a running job; the
\* scheduler cancels the job's task, which takes effect when the event
\* loop next runs the task.
stop_scheduler ==
    /\ lifecycle.pc = "serving"
    /\ lifecycle' =
          IF SchedulerRunning(lifecycle.scheduler)
          THEN [lifecycle EXCEPT !.pc = "closing", !.scheduler = "stopped",
                                 !.cancel = lifecycle.job = "running"]
          ELSE [lifecycle EXCEPT !.pc = "closing"]
    /\ UNCHANGED lifecycleOthers

\* lifespan, second statement: await tussam_service.close(), that is
\* self.client.aclose()
close ==
    /\ lifecycle.pc = "closing"
    /\ lifecycle' = [lifecycle EXCEPT
                        !.pc = "down", !.client = "closed",
                        !.closes = @ + 1,
                        !.stopped_before_close =
                            ~SchedulerRunning(lifecycle.scheduler)]
    /\ UNCHANGED lifecycleOthers

\* The job's task, resumed before the cancellation reaches it: its awaited
\* call had completed, and it runs on to its next await
JobResumesBeforeCancel ==
    /\ lifecycle.job = "running"
    /\ lifecycle.cancel
    /\ lifecycle.client = "closed"
    /\ lifecycle.requests < MaxJobRequests
    /\ lifecycle' = [lifecycle EXCEPT !.requests = @ + 1, !.late = @ + 1]
    /\ UNCHANGED lifecycleOthers

\* The cancellation reaches the job's task: CancelledError is no Exception,
\* no `except Exception` of the job catches it
JobCancelled ==
    /\ lifecycle.job = "running"
    /\ lifecycle.cancel
    /\ lifecycle.client = "closed"
    /\ lifecycle' = [lifecycle EXCEPT !.job = "cancelled", !.cancel = FALSE]
    /\ UNCHANGED lifecycleOthers

(***************************************************************************)
(* The three structural syncs, each run from start to end                  *)
(***************************************************************************)
\* What the upstream answers for nodosLinea of one line and direction: the
\* fetch fails, or a sequence of nodes
NodosAnswers ==
    {[ok |-> FALSE, nodos |-> <<>>]}
        \cup {[ok |-> TRUE, nodos |-> n] : n \in TopoNodosResponses}

\* str(nodo.get("codigo", "")) of each node of a sequence
NodoCodes(nodos) == [i \in 1 .. Len(nodos) |-> nodos[i].codigo]

\* todas_paradas after the line/direction loops of sync_paradas_from_api,
\* answers holding the answer of each iteration in order
RECURSIVE CollectTodas(_, _)
CollectTodas(todas, answers) ==
    IF answers = <<>> THEN todas
    ELSE CollectTodas(IF Head(answers).ok
                      THEN AddNodos(todas, Head(answers).nodos).todas
                      ELSE todas,
                      Tail(answers))

\* relaciones after the loops of sync_paradas_lineas_from_api
RECURSIVE CollectRelaciones(_, _)
CollectRelaciones(its, answers) ==
    IF its = <<>> THEN <<>>
    ELSE (IF Head(answers).ok
          THEN RowsOfNodos(NodoCodes(Head(answers).nodos), Head(its).label,
                           Head(its).sentido, 0)
          ELSE <<>>)
         \o CollectRelaciones(Tail(its), Tail(answers))

\* save_lineas_batch: INSERT OR REPLACE of one row per item, the item's
\* labelLinea as numero, whatever it is
SaveLineasBatch(table, items) ==
    table \cup {items[i].labelLinea : i \in 1 .. Len(items)}

structuralOthers ==
    <<lifecycle, syncall, topo, nearby, arrivals, cercanas, dirsync, syncreq, limiter,
      mread, tx, msync, lastCall, clockVars, cacheVars, jobVars>>

\* A whole run of sync_paradas_from_api that reaches its save
run_sync_paradas_from_api ==
    /\ \E items \in LineasResponses, answers \in [1 .. 2 -> NodosAnswers] :
          LET its == TopoIterations([i \in 1 .. Len(items) |-> items[i].linea])
          IN paradas' =
                SaveParadasBatch(paradas,
                    CollectTodas(<<>>, SubSeq(answers, 1, Len(its))), now)
    /\ UNCHANGED <<paradas_lineas, tabla_lineas, structuralOthers>>

\* A whole run of sync_lineas_from_api that reaches its save
run_sync_lineas_from_api ==
    /\ \E items \in LineasResponses :
          tabla_lineas' = SaveLineasBatch(tabla_lineas, items)
    /\ UNCHANGED <<paradas, paradas_lineas, structuralOthers>>

\* A whole run of sync_paradas_lineas_from_api whose save commits
run_sync_paradas_lineas_from_api ==
    /\ \E items \in LineasResponses, answers \in [1 .. 2 -> NodosAnswers] :
          LET its == Iterations(items)
          IN paradas_lineas' =
                SaveParadasLineasBatch(paradas_lineas,
                    CollectRelaciones(its, SubSeq(answers, 1, Len(its))))
    /\ UNCHANGED <<paradas, tabla_lineas, structuralOthers>>

Init ==
    /\ paradas_lineas = {}
    /\ tx = TxIdle
    /\ msync = MsyncIdle
    /\ paradas = {}
    /\ lastCall = NoCall
    /\ now = 0
    /\ tiempos_cache = {}
    /\ direcciones_cache = {}
    /\ ret = NoRet
    /\ history = <<>>
    /\ weekly = WeeklyIdle
    /\ retry = RetryIdle
    /\ syncall = SyncAllIdle
    /\ topo = TopoIdle
    /\ nearby = NearbyIdle
    /\ arrivals = ArrivalsIdle
    /\ cercanas = CercanasIdle
    /\ dirsync = DirSyncIdle
    /\ syncreq = SyncReqIdle
    /\ limiter = LimiterInit
    /\ mread = NoRead
    /\ tabla_lineas = {}
    /\ lifecycle = LifecycleInit

NextParadas ==
    \/ save_paradas_batch
    \/ UpsertNext
    \/ CommitBatch
    \/ save_parada
    \/ update_parada_direccion
    \/ TickStore

SpecParadas == Init /\ [][NextParadas]_vars

NextCache ==
    \/ save_tiempos_cache
    \/ get_cached_tiempos
    \/ save_direccion_cache
    \/ get_cached_direccion
    \/ CorruptTiempos
    \/ CorruptDireccion
    \/ TickCache

SpecCache == Init /\ [][NextCache]_vars

NextWeekly ==
    \/ run_weekly_sync
    \/ CallPhase
    \/ EndPhase

SpecWeekly == Init /\ [][NextWeekly]_vars

NextRetry ==
    \/ get_with_retry
    \/ Get
    \/ Sleep

SpecRetry == Init /\ [][NextRetry]_vars

NextSyncAll ==
    \/ sync_all
    \/ CallStep
    \/ EndStep

SpecSyncAll == Init /\ [][NextSyncAll]_vars

NextTopology ==
    \/ sync_paradas_from_api
    \/ FetchNodosLinea
    \/ TopoSave

SpecTopology == Init /\ [][NextTopology]_vars

NextNearby ==
    \/ save_parada_cercana
    \/ get_paradas_cercanas

SpecNearby == Init /\ [][NextNearby]_vars

NextArrivals ==
    \/ get_tiempos_parada
    \/ LookupTiempos
    \/ SaveTiempos
    \/ replace_paradas_lineas
    \/ TickArrivals

SpecArrivals == Init /\ [][NextArrivals]_vars

NextCercanas ==
    \/ save_parada_before_requests
    \/ get_paradas_cercanas_con_tiempos
    \/ LookupParada
    \/ RespondCercanas

SpecCercanas == Init /\ [][NextCercanas]_vars

NextAddresses ==
    \/ save_paradas_batch
    \/ UpsertNextTopology
    \/ CommitBatch
    \/ sync_direcciones_all
    \/ GeocodeNext

SpecAddresses == Init /\ [][NextAddresses]_vars

NextStructural ==
    \/ run_sync_paradas_from_api
    \/ run_sync_lineas_from_api
    \/ run_sync_paradas_lineas_from_api

SpecStructural == Init /\ [][NextStructural]_vars

NextBuckets ==
    \/ dispatch_crowd
    \/ TickCrowd

SpecBuckets == Init /\ [][NextBuckets]_vars

NextLifecycle ==
    \/ lifespan_startup
    \/ JobFires
    \/ JobRequest
    \/ JobPhaseEnds
    \/ stop_scheduler
    \/ close
    \/ JobResumesBeforeCancel
    \/ JobCancelled

SpecLifecycle == Init /\ [][NextLifecycle]_vars

NextAddressRuns ==
    \/ save_paradas_before_address_sync
    \/ sync_direcciones_all_again
    \/ GeocodeNext

SpecAddressRuns == Init /\ [][NextAddressRuns]_vars

NextSyncAuth ==
    \/ post_sync
    \/ verify_sync_key
    \/ RunSync

SpecSyncAuth == Init /\ [][NextSyncAuth]_vars

NextLimiter ==
    \/ dispatch
    \/ TickLimiter

SpecLimiter == Init /\ [][NextLimiter]_vars

NextMembershipReads ==
    \/ save_parada_before_reads
    \/ save_paradas_lineas_batch_under_reads
    \/ InsertRow
    \/ CommitSave
    \/ get_lineas_de_parada
    \/ get_sentidos_for_parada
    \/ get_paradas_de_linea

SpecMembershipReads == Init /\ [][NextMembershipReads]_vars

NextMembership ==
    \/ save_paradas_lineas_batch
    \/ InsertRow
    \/ CommitSave
    \/ sync_paradas_lineas_from_api
    \/ FetchNodos
    \/ SyncSave
    \/ SyncReturn

SpecMembership == Init /\ [][NextMembership]_vars

(***************************************************************************)
(* Claims on the membership table                                          *)
(***************************************************************************)
\* C1: a save_paradas_lineas_batch call given an empty list, whether made
\* directly or by a membership sync that collected no rows, neither deletes
\* nor inserts: while it runs and after it returns the committed table
\* equals the table at the time of the call, and the call ends as a no-op.
C1_EmptyReplaceIsNoop ==
    (tx.pc # "idle" /\ Len(tx.input) = 0) =>
        /\ paradas_lineas = tx.before
        /\ tx.pc = "returned"
        /\ tx.outcome = "noop"

\* C1 witness: a sync that collected no rows has returned and the rows
\* stored before it are still there.
C1_Witness ==
    /\ msync.pc = "returned"
    /\ msync.relaciones = <<>>
    /\ tx.caller = "sync"
    /\ tx.outcome = "noop"
    /\ paradas_lineas # {}

\* First input row of every primary key, the table INSERT OR IGNORE builds
FirstOfEachKey(input) ==
    {input[i] : i \in {k \in 1 .. Len(input) :
        \A j \in 1 .. (k - 1) : PKRelacion(input[j]) # PKRelacion(input[k])}}

\* C2: after a successful save_paradas_lineas_batch on a non-empty list the
\* table holds exactly the first input row of every distinct key; nothing
\* stored before survives unless the input carries it.
C2_ReplaceHoldsExactlyInput ==
    (tx.pc = "returned" /\ tx.outcome = "ok") =>
        /\ paradas_lineas = FirstOfEachKey(tx.input)
        /\ \A r \in tx.before :
              (\A i \in 1 .. Len(tx.input) : tx.input[i] # r)
                  => r \notin paradas_lineas

\* C2 witness: a successful replace whose input repeats a key with another
\* ordinal and omits a stop that had rows before the call.
C2_Witness ==
    /\ tx.pc = "returned"
    /\ tx.outcome = "ok"
    /\ \E i, j \in 1 .. Len(tx.input) :
          /\ i < j
          /\ PKRelacion(tx.input[i]) = PKRelacion(tx.input[j])
          /\ tx.input[i] # tx.input[j]
    /\ \E r \in tx.before :
          \A i \in 1 .. Len(tx.input) :
              tx.input[i].parada_codigo # r.parada_codigo

\* C3: when an insertion of a non-empty replace fails, the deletion is
\* rolled back (the table equals the table before the call) and the error
\* is raised to the caller, the membership sync included.
C3_FailedReplaceRollsBack ==
    /\ (tx.pc = "returned" /\ tx.outcome = "raised") =>
          /\ paradas_lineas = tx.before
          /\ Len(tx.input) > 0
    /\ (tx.pc = "inserting") => paradas_lineas = tx.before
    /\ (msync.pc \in {"returned", "raised"} /\ tx.caller = "sync"
            /\ tx.outcome = "raised") => msync.pc = "raised"

\* C3 witness: a replace failed after at least one row had been inserted
\* over a non-empty table, and the stored rows differ from the input.
C3_Witness ==
    /\ tx.pc = "returned"
    /\ tx.outcome = "raised"
    /\ tx.i > 1
    /\ tx.before # {}
    /\ tx.input[1] \notin tx.before
    /\ paradas_lineas = tx.before

(***************************************************************************)
(* Claims on table paradas                                                 *)
(***************************************************************************)
\* The codes a batch mentions, and those it mentions only without address
CodesOf(batch) == {batch[i].codigo : i \in 1 .. Len(batch)}
CodesWithoutAddress(batch) ==
    {c \in CodesOf(batch) :
        \A i \in 1 .. Len(batch) : batch[i].codigo = c => ~HasCalle(batch[i])}
LastEntryOf(batch, c) ==
    batch[CHOOSE i \in 1 .. Len(batch) :
             /\ batch[i].codigo = c
             /\ \A j \in (i + 1) .. Len(batch) : batch[j].codigo # c]

\* C4: save_paradas_batch, for a stop that is stored with an address and is
\* given without address data (calle null or empty), writes the name, the
\* coordinates and the timestamp and leaves all seven address columns as
\* they were.
C4_UpsertWithoutAddressKeepsAddress ==
    (lastCall.op = "save_paradas_batch" /\ lastCall.pc = "done") =>
        \A c \in CodesWithoutAddress(lastCall.args) :
            (HasParada(lastCall.before, c)
                /\ HasCalle(ParadaOf(lastCall.before, c))) =>
                /\ HasParada(paradas, c)
                /\ \A col \in AddressColumns :
                      ParadaOf(paradas, c)[col]
                          = ParadaOf(lastCall.before, c)[col]
                /\ ParadaOf(paradas, c).nombre
                      = LastEntryOf(lastCall.args, c).nombre
                /\ ParadaOf(paradas, c).latitud
                      = LastEntryOf(lastCall.args, c).latitud
                /\ ParadaOf(paradas, c).longitud
                      = LastEntryOf(lastCall.args, c).longitud
                /\ ParadaOf(paradas, c).updated_at = lastCall.at

\* C4 witness: a stop geocoded earlier (all address columns set) has been
\* upserted without address data, with another name and a later timestamp,
\* and still carries its address.
C4_Witness ==
    /\ lastCall.op = "save_paradas_batch"
    /\ lastCall.pc = "done"
    /\ \E c \in CodesWithoutAddress(lastCall.args) :
          /\ HasParada(lastCall.before, c)
          /\ ParadaOf(lastCall.before, c).calle = "Calle B"
          /\ ParadaOf(lastCall.before, c).codigo_postal = "41001"
          /\ ParadaOf(paradas, c).calle = "Calle B"
          /\ ParadaOf(paradas, c).codigo_postal = "41001"
          /\ ParadaOf(paradas, c).updated_at
                > ParadaOf(lastCall.before, c).updated_at
          /\ ParadaOf(paradas, c).nombre
                # ParadaOf(lastCall.before, c).nombre

(***************************************************************************)
(* Claims on the caches                                                    *)
(***************************************************************************)
IsGet == ret.op \in {"get_tiempos", "get_direccion"}

\* Age of the row a read fetched, and the TTL of its table, in seconds
AgeAtRead == ret.at - ret.cached_at
TTLOfRead == IF ret.op = "get_tiempos" THEN 60 ELSE 30 * 24 * 3600

\* Rows now stored under the key of the last read
RowsOfReadKey ==
    IF ret.op = "get_tiempos"
    THEN {r \in tiempos_cache : r.parada_codigo = ret.codigo}
    ELSE {r \in direcciones_cache :
            /\ 10 * r.latitud - ret.lat < 5 /\ ret.lat - 10 * r.latitud < 5
            /\ 10 * r.longitud - ret.lon < 5 /\ ret.lon - 10 * r.longitud < 5}

\* C5: a read that finds a decodable entry returns the stored payload
\* unchanged exactly when the entry's age is below the TTL (60 s for
\* arrivals, 30 days for addresses); an entry whose age has reached the TTL
\* is a miss at every later read, and the read leaves the row in place.
C5_ReadHitsIffWithinTTL ==
    (IsGet /\ ret.found /\ Decodable(ret.text)) =>
        /\ (ret.result = ret.text.doc) <=> (AgeAtRead < TTLOfRead)
        /\ (AgeAtRead >= TTLOfRead) => ret.result = NULL
        /\ RowsOfReadKey # {}

\* C5 witness: an address entry read 29 days after it was stored is served
\* with its payload.
C5_Witness ==
    /\ ret.op = "get_direccion"
    /\ ret.found
    /\ Decodable(ret.text)
    /\ AgeAtRead = 29 * 24 * 3600
    /\ ret.result = "direccion-A"

Nearest4(x) ==
    CHOOSE k \in ((x \div 10) - 1) .. ((x \div 10) + 1) :
        10 * k - x < 5 /\ x - 10 * k < 5

\* Same cache key: same stop code, coordinates with the same nearest pair
SameKey(e, codigo, lat, lon) ==
    /\ e.codigo = codigo
    /\ Nearest4(e.lat) = Nearest4(lat)
    /\ Nearest4(e.lon) = Nearest4(lon)

WritesOf(table) ==
    IF table = "tiempos" THEN {"save_tiempos", "raw_tiempos"}
    ELSE {"save_direccion", "raw_direccion"}

\* Index in history of the latest write to the key, 0 when there is none
LatestWrite(table, codigo, lat, lon) ==
    LET idx == {i \in 1 .. Len(history) :
                   /\ history[i].op \in WritesOf(table)
                   /\ SameKey(history[i], codigo, lat, lon)}
    IN  IF idx = {} THEN 0 ELSE CHOOSE i \in idx : \A j \in idx : j <= i

\* C7: a read whose key was last written by a set (save_tiempos_cache for
\* the stop, save_direccion_cache for coordinates rounding to the same
\* 4-decimal pair) less than one TTL ago returns the payload of that set;
\* every key has at most one row, and the row is the one of the latest set.
C7_ReadYourOwnWrite ==
    /\ IsGet =>
          LET table == IF ret.op = "get_tiempos" THEN "tiempos"
                       ELSE "direcciones"
              i == LatestWrite(table, ret.codigo, ret.lat, ret.lon)
          IN  (i > 0 /\ history[i].op \in {"save_tiempos", "save_direccion"}
                 /\ ret.at - history[i].at < TTLOfRead)
                  => ret.result = history[i].payload
    /\ \A r1, r2 \in tiempos_cache :
          r1.parada_codigo = r2.parada_codigo => r1 = r2
    /\ \A r1, r2 \in direcciones_cache :
          (r1.latitud = r2.latitud /\ r1.longitud = r2.longitud) => r1 = r2
    /\ \A i \in 1 .. Len(history) :
          (/\ history[i].op = "save_direccion"
           /\ LatestWrite("direcciones", "", history[i].lat, history[i].lon) = i)
              => [latitud |-> Nearest4(history[i].lat),
                  longitud |-> Nearest4(history[i].lon),
                  direccion_json |-> [enc |-> "json",
                                      doc |-> history[i].payload],
                  cached_at |-> history[i].at] \in direcciones_cache
    /\ \A i \in 1 .. Len(history) :
          (/\ history[i].op = "save_tiempos"
           /\ LatestWrite("tiempos", history[i].codigo, 0, 0) = i)
              => [parada_codigo |-> history[i].codigo,
                  tiempos_json |-> [enc |-> "json",
                                    doc |-> history[i].payload],
                  cached_at |-> history[i].at] \in tiempos_cache

\* C7 witness: two sets with different coordinates that round to the same
\* pair, then a get with the first coordinates returns the second payload.
C7_Witness ==
    /\ ret.op = "get_direccion"
    /\ Len(history) = 2
    /\ history[1].op = "save_direccion"
    /\ history[2].op = "save_direccion"
    /\ history[1].lat # history[2].lat
    /\ history[1].payload # history[2].payload
    /\ ret.lat = history[1].lat
    /\ ret.lon = history[1].lon
    /\ Nearest4(history[1].lon) = Nearest4(history[2].lon)
    /\ ret.at > history[2].at
    /\ ret.result = history[2].payload

(***************************************************************************)
(* Claims on the weekly job                                                *)
(***************************************************************************)
InLog(phase, ev) ==
    \E i \in 1 .. Len(weekly.log) :
        weekly.log[i].phase = phase /\ weekly.log[i].ev = ev

CallsOf(phase) ==
    Cardinality({i \in 1 .. Len(weekly.log) :
                    weekly.log[i].phase = phase /\ weekly.log[i].ev = "call"})

\* C8: in a run of the weekly job whose stop sync failed, none of line sync,
\* membership sync and address sync is called, and the job has returned
\* without raising.
C8_TopologyFailureAborts ==
    InLog("sync_paradas", "raised") =>
        /\ CallsOf("sync_lineas") = 0
        /\ CallsOf("sync_paradas_lineas") = 0
        /\ CallsOf("sync_direcciones") = 0
        /\ weekly.pc = "returned"
        /\ ~weekly.propagated

\* C8 witness: a run, started after an earlier complete run, has returned
\* with the failed stop sync as its only call.
C8_Witness ==
    /\ weekly.pc = "returned"
    /\ weekly.log = <<[phase |-> "sync_paradas", ev |-> "call"],
                      [phase |-> "sync_paradas", ev |-> "raised"]>>
    /\ Len(weekly.past) = 1
    /\ Len(weekly.past[1]) = 8

\* C9: in a run whose stop sync succeeded, line sync, membership sync and
\* address sync are called once each, in that order, each after the call
\* before it ended, whichever of them fail; the job returns only after the
\* address sync ended, and without raising.
C9_LaterPhasesAlwaysRun ==
    InLog("sync_paradas", "ok") =>
        /\ \A i \in 1 .. Len(weekly.log) :
              /\ weekly.log[i].phase = CASE i <= 2 -> "sync_paradas"
                                           [] i \in {3, 4} -> "sync_lineas"
                                           [] i \in {5, 6} -> "sync_paradas_lineas"
                                           [] OTHER -> "sync_direcciones"
              /\ (i % 2 = 1) <=> (weekly.log[i].ev = "call")
        /\ Len(weekly.log) <= 8
        /\ (weekly.pc = "returned") <=> (Len(weekly.log) = 8)
        /\ ~weekly.propagated

\* C9 witness: a run has returned in which the stop sync succeeded, line
\* sync and membership sync failed and the address sync ran after them.
C9_Witness ==
    /\ weekly.pc = "returned"
    /\ InLog("sync_paradas", "ok")
    /\ InLog("sync_lineas", "raised")
    /\ InLog("sync_paradas_lineas", "raised")
    /\ InLog("sync_direcciones", "ok")
    /\ CallsOf("sync_direcciones") = 1

(***************************************************************************)
(* Claims on _get_with_retry                                               *)
(***************************************************************************)
LastGet == retry.gets[Len(retry.gets)]

\* C10: once a response arrives whose status is not in {429, 500, 502, 503}
\* (all responses before it being retryable ones), the call is over at
\* once: a success status is returned without error, an error status is
\* raised; one wait was made per earlier response and none after it, and no
\* further GET follows.
C10_FirstNonRetryableDecides ==
    (/\ Len(retry.gets) > 0
     /\ LastGet.kind = "status"
     /\ LastGet.status \notin {429, 500, 502, 503}) =>
        /\ retry.pc \in {"returned", "raised"}
        /\ Len(retry.gets) <= 3
        /\ \A i \in 1 .. (Len(retry.gets) - 1) :
              /\ retry.gets[i].kind = "status"
              /\ retry.gets[i].status \in {429, 500, 502, 503}
        /\ Len(retry.sleeps) = Len(retry.gets) - 1
        /\ retry.result = LastGet.status
        /\ (LastGet.status < 400) => (retry.pc = "returned" /\ retry.error = "none")
        /\ (LastGet.status >= 400) => (retry.pc = "raised" /\ retry.error = "status")

\* C10 witness: the responses were 429 then 200; the call returned the 200
\* after two GETs and one wait of 2 seconds.
C10_Witness ==
    /\ retry.pc = "returned"
    /\ Len(retry.gets) = 2
    /\ retry.gets[1].status = 429
    /\ retry.gets[2].status = 200
    /\ retry.result = 200
    /\ retry.sleeps = <<2>>

AllRetryable(gets) ==
    \A i \in 1..Len(gets) :
        gets[i].kind = "status" /\ IsRetryable(gets[i].status)

\* C11: when every upstream response of a call of _get_with_retry is
\* retryable the call ends, after max_retries GETs, by raising the status
\* error of the last response; and no call returns to its caller a response
\* whose status is in the retryable set.
C11_ExhaustedRetriesRaiseLastStatus ==
    /\ (retry.pc \in {"returned", "raised"} /\ AllRetryable(retry.gets))
          => /\ retry.pc = "raised"
             /\ retry.error = "status"
             /\ Len(retry.gets) = max_retries
             /\ retry.result = LastGet.status
    /\ retry.pc = "returned" => ~IsRetryable(retry.result)

C11_Witness ==
    /\ retry.pc = "raised"
    /\ retry.error = "status"
    /\ Len(retry.gets) = 3
    /\ retry.gets[1].status = 429
    /\ retry.gets[2].status = 500
    /\ retry.gets[3].status = 503
    /\ retry.result = 503
    /\ retry.sleeps = <<2, 4, 8>>

\* C12 as claimed: a timeout or connection error on one attempt is followed
\* by the backoff wait and a further attempt while attempts remain, so the
\* exception reaches the caller only from the last of the max_retries
\* attempts.
C12_ExceptionIsRetried ==
    (retry.pc = "raised" /\ retry.error = "exception")
        => /\ Len(retry.gets) = max_retries
           /\ Len(retry.sleeps) = max_retries - 1

\* C12 as the code has it: a timeout or connection error of client.get
\* reaches the caller from the attempt it happens on; no wait and no further
\* GET follows it, whatever the number of attempts left.
C12_ExceptionPropagatesAtOnce ==
    \A i \in 1..Len(retry.gets) :
        retry.gets[i].kind = "exception"
            => /\ i = Len(retry.gets)
               /\ retry.pc = "raised"
               /\ retry.error = "exception"
               /\ Len(retry.sleeps) = i - 1

C12_Witness ==
    /\ retry.pc = "raised"
    /\ retry.error = "exception"
    /\ Len(retry.gets) = 2
    /\ retry.gets[1].status = 503
    /\ retry.gets[2].kind = "exception"
    /\ retry.sleeps = <<2>>

(***************************************************************************)
(* POST /sync/all: claims                                                  *)
(***************************************************************************)
StepLogged(step, ev) ==
    \E i \in 1..Len(syncall.log) : syncall.log[i] = [step |-> step, ev |-> ev]
StepCalled(step) == StepLogged(step, "call")
StepRaised(step) == StepLogged(step, "raised")

\* The calls of the steps, in the order they were made
StepCalls(log) ==
    LET Calls == SelectSeq(log, LAMBDA e : e.ev = "call")
    IN  [i \in 1..Len(Calls) |-> Calls[i].step]

\* C13 as claimed: sync-all invokes stop sync, line sync and membership
\* sync in that sequence, and a failure of one step does not prevent the
\* following steps from being invoked: every request that is over has
\* invoked the three of them.
C13_EveryStepInvoked ==
    syncall.pc \in {"returned", "raised"}
        => StepCalls(syncall.log) = SyncAllSteps

\* C13 as the code has it: the steps are invoked in the sequence stop sync,
\* line sync, membership sync; a step that fails ends the request with that
\* error and no following step is invoked; the request returns the three
\* counts exactly when the three steps succeeded.
C13_FailedStepEndsRequest ==
    /\ \E n \in 0..Len(SyncAllSteps) :
          StepCalls(syncall.log) = SubSeq(SyncAllSteps, 1, n)
    /\ \A i \in 1..Len(syncall.log) :
          syncall.log[i].ev = "raised"
              => i = Len(syncall.log) /\ syncall.pc = "raised"
    /\ syncall.pc = "raised"
          => syncall.log[Len(syncall.log)].ev = "raised"
    /\ syncall.pc = "returned"
          => /\ Len(syncall.counts) = Len(SyncAllSteps)
             /\ \A i \in 1..Len(SyncAllSteps) : ~StepRaised(SyncAllSteps[i])

C13_Witness ==
    /\ syncall.pc = "raised"
    /\ StepCalled("sync_paradas_from_api")
    /\ StepRaised("sync_paradas_from_api")
    /\ ~StepCalled("sync_lineas_from_api")
    /\ ~StepCalled("sync_paradas_lineas_from_api")

(***************************************************************************)
(* sync_paradas_from_api: claims                                           *)
(***************************************************************************)
\* A node that names a stop: it has a code and coordinates
NamesStop(nodo) ==
    /\ nodo.codigo # ""
    /\ nodo.posicion
    /\ nodo.latitudE6 # 0
    /\ nodo.longitudE6 # 0

\* The stops named by the fetched line/directions that satisfy Keep
StopsFetched(Keep(_)) ==
    UNION {{f.nodos[j] : j \in {k \in 1..Len(f.nodos) : NamesStop(f.nodos[k])}} :
              f \in {topo.fetched[i] :
                        i \in {k \in 1..Len(topo.fetched) :
                                  Keep(topo.fetched[k])}}}

StopsOfSuccessful == StopsFetched(LAMBDA f : f.ok)
StopsOfAny == StopsFetched(LAMBDA f : TRUE)

\* C14: whatever line/direction fetches fail, sync_paradas_from_api is not
\* aborted by them (only the fetch of the line list or the save end it with
\* an error); when it returns, the value returned is the number of unique
\* stops found (all the stops of the successful fetches, and none that no
\* fetch named), and every stop with a code and coordinates of every
\* successfully fetched line/direction is in table paradas with a name and
\* coordinates that the upstream gave for it.
C14_FailedFetchesAreSkipped ==
    /\ topo.pc = "raised" => topo.error \in {"lineas", "save"}
    /\ topo.pc = "returned" =>
          /\ topo.todo = <<>>
          /\ topo.ret >= Cardinality({n.codigo : n \in StopsOfSuccessful})
          /\ topo.ret <= Cardinality({n.codigo : n \in StopsOfAny})
          /\ \A n \in StopsOfSuccessful :
                /\ HasParada(paradas, n.codigo)
                /\ LET row == ParadaOf(paradas, n.codigo) IN
                   /\ \E m \in StopsOfAny :
                         /\ m.codigo = n.codigo
                         /\ row.nombre = m.texto
                         /\ row.latitud * 10 = m.latitudE6
                         /\ row.longitud * 10 = m.longitudE6

C14_Witness ==
    /\ topo.pc = "returned"
    /\ Len(topo.fetched) = 4
    /\ ~topo.fetched[1].ok /\ topo.fetched[1].nodos = <<>>
    /\ topo.fetched[2].ok /\ topo.fetched[2].nodos = <<N43b, N44a>>
    /\ ~topo.fetched[3].ok
    /\ topo.fetched[4].ok /\ topo.fetched[4].nodos = <<N43a>>
    /\ topo.ret = 2
    /\ HasParada(paradas, "43") /\ ParadaOf(paradas, "43").nombre = "Pza. Nueva"
    /\ HasParada(paradas, "44")

(***************************************************************************)
(* get_paradas_cercanas: claims                                            *)
(***************************************************************************)
\* The distance (millimetres) from the point of the last query to a stored
\* stop
DistanceOf(row) ==
    haversine(nearby.lat, nearby.lon, row.latitud, row.longitud)

ReturnedCodes ==
    {nearby.result[i].parada.codigo : i \in 1..Len(nearby.result)}

\* C15: get_paradas_cercanas returns, once each, exactly the stored stops
\* whose distance from the query point is at most the radius, and the
\* distance reported for each of them is the rounded distance and is at
\* most the radius.
C15_ExactlyTheStopsWithinRadius ==
    nearby.op = "get_paradas_cercanas" =>
        /\ ReturnedCodes =
              {row.codigo : row \in {r \in nearby.table :
                                        DistanceOf(r) <= nearby.radio * 1000}}
        /\ Cardinality(ReturnedCodes) = Len(nearby.result)
        /\ \A i \in 1..Len(nearby.result) :
              LET x == nearby.result[i] IN
              /\ x.parada \in nearby.table
              /\ x.distancia <= nearby.radio
              /\ 1000 * x.distancia - DistanceOf(x.parada) \in -500..500

\* A stop at 499.6 m is returned by a query of radius 500, reported at 500 m,
\* while the stop at 500.2 m is left out
C15_Witness ==
    /\ nearby.op = "get_paradas_cercanas"
    /\ nearby.radio = 500
    /\ \E r \in nearby.table : DistanceOf(r) = 500169
    /\ \E i \in 1..Len(nearby.result) :
          /\ DistanceOf(nearby.result[i].parada) = 499616
          /\ nearby.result[i].distancia = 500
    /\ Cardinality(nearby.table) = 4
    /\ Len(nearby.result) = 3

\* The place of a code in the store's listing (ORDER BY codigo)
ListingIndex(codigo) ==
    CHOOSE k \in 1..Len(CodigoOrder) : CodigoOrder[k] = codigo

\* The reported value the last query sorts by
ReportedKey(x) ==
    IF nearby.bearing = NoBearing THEN x.distancia ELSE x.bearing_diff

\* C16: the result of get_paradas_cercanas is in ascending order of the
\* reported distance when no bearing is given, and of the reported bearing
\* difference (which every returned stop then carries) when a bearing is
\* given, 0 included; stops with equal keys are in the store's listing
\* order, ascending code.
C16_SortedByReportedKey ==
    nearby.op = "get_paradas_cercanas" =>
        /\ \A i \in 1..Len(nearby.result) :
              LET x == nearby.result[i] IN
              IF nearby.bearing = NoBearing
              THEN x.bearing_diff = NoKey
              ELSE x.bearing_diff =
                      PyRound(BearingDiff(nearby.bearing,
                          CalculateBearing(nearby.lat, nearby.lon,
                              x.parada.latitud, x.parada.longitud)))
        /\ \A i, j \in 1..Len(nearby.result) :
              i < j =>
                LET x == nearby.result[i]
                    y == nearby.result[j]
                IN  \/ ReportedKey(x) < ReportedKey(y)
                    \/ /\ ReportedKey(x) = ReportedKey(y)
                       /\ ListingIndex(x.parada.codigo)
                              < ListingIndex(y.parada.codigo)

\* With bearing 0 the stop to the north comes before the nearer-listed stop
\* to the east, and the two stops to the north tie and keep the listing order
C16_Witness ==
    /\ nearby.op = "get_paradas_cercanas"
    /\ nearby.bearing = 0
    /\ Len(nearby.result) = 3
    /\ nearby.result[1].parada.codigo = "43"
    /\ nearby.result[2].parada.codigo = "45"
    /\ nearby.result[3].parada.codigo = "100"
    /\ nearby.result[1].bearing_diff = 0
    /\ nearby.result[2].bearing_diff = 0
    /\ nearby.result[3].bearing_diff = 90
    /\ nearby.result[1].distancia = nearby.result[3].distancia

(***************************************************************************)
(* get_tiempos_parada: claims                                              *)
(***************************************************************************)
\* The last call fetched from the upstream and built its result
FreshResult ==
    arrivals.lookups = 1 /\ arrivals.pc \in {"saving", "returned"}

\* The directions table paradas_lineas had for a line at the stop of the call
DirectionsAt(label) ==
    {r.sentido : r \in {x \in arrivals.membership :
                           /\ x.parada_codigo = arrivals.codigo
                           /\ x.linea_numero = label}}

\* C17: every arrival of a fresh get_tiempos_parada carries the direction
\* recorded in paradas_lineas when its line has exactly one direction at the
\* stop, and no direction (None) when the line has none or two.
C17_DirectionOnlyWhenUnique ==
    FreshResult =>
        \A i \in 1..Len(arrivals.result.tiempos) :
            LET t == arrivals.result.tiempos[i]
                dirs == DirectionsAt(t.linea)
            IN  IF Cardinality(dirs) = 1
                THEN t.sentido \in dirs
                ELSE t.sentido = SentidoNone

C17_Witness ==
    /\ arrivals.pc = "returned"
    /\ arrivals.lookups = 1
    /\ DirectionsAt("01") = {1}
    /\ DirectionsAt("02") = {}
    /\ \E i, j \in 1..Len(arrivals.result.tiempos) :
          /\ arrivals.result.tiempos[i].linea = "01"
          /\ arrivals.result.tiempos[i].sentido = 1
          /\ arrivals.result.tiempos[j].linea = "02"
          /\ arrivals.result.tiempos[j].sentido = SentidoNone

\* The estimates of the upstream answer of the last call, as pairs of line
\* and item of its estimaciones
UpstreamEstimates ==
    UNION {{[k |-> k, i |-> i] :
               i \in 1..Len(arrivals.upstream[k].estimaciones)} :
           k \in 1..Len(arrivals.upstream)}

MinutesOf(e) == arrivals.upstream[e.k].estimaciones[e.i].segundos \div 60

\* The upstream estimate e gives the returned arrival t
IsEstimate(t, e) ==
    LET est == arrivals.upstream[e.k].estimaciones[e.i]
    IN  /\ t.linea = arrivals.upstream[e.k].labelLinea
        /\ t.tiempo_minutos = MinutesOf(e)
        /\ t.destino = est.destino
        /\ t.distancia_metros = est.distancia

\* C18: the arrivals of a fresh get_tiempos_parada are in ascending order
\* of minutes, are at most 10 (all the estimates when there are at most
\* 10), each is an upstream estimate of its own, and every estimate left
\* out has at least the minutes of every arrival returned.
C18_TenSoonestAscending ==
    FreshResult =>
        LET tiempos == arrivals.result.tiempos
            n == Len(tiempos)
            total == Cardinality(UpstreamEstimates)
        IN  /\ \A i \in 1..(n - 1) :
                  tiempos[i].tiempo_minutos <= tiempos[i + 1].tiempo_minutos
            /\ n = IF total < 10 THEN total ELSE 10
            /\ \A i \in 1..n :
                  Cardinality({j \in 1..n : tiempos[j] = tiempos[i]})
                    <= Cardinality({e \in UpstreamEstimates :
                                      IsEstimate(tiempos[i], e)})
            /\ n > 0 =>
                  Cardinality({e \in UpstreamEstimates :
                                 MinutesOf(e) < tiempos[n].tiempo_minutos})
                    = Cardinality({i \in 1..n :
                                 tiempos[i].tiempo_minutos
                                    < tiempos[n].tiempo_minutos})

C18_Witness ==
    /\ arrivals.pc = "returned"
    /\ arrivals.lookups = 1
    /\ Cardinality(UpstreamEstimates) = 11
    /\ Len(arrivals.result.tiempos) = 10
    /\ arrivals.result.tiempos[1].tiempo_minutos = 0
    /\ arrivals.result.tiempos[10].tiempo_minutos = 30
    /\ \A i \in 1..10 : arrivals.result.tiempos[i].tiempo_minutos # 60

\* The cache held, when the last call started, an entry of its stop younger
\* than the TTL
ValidEntryAtCall ==
    \E row \in arrivals.cache :
        /\ row.parada_codigo = arrivals.codigo
        /\ Decodable(row.tiempos_json)
        /\ arrivals.at - row.cached_at < TiemposTTL

\* C19: a get_tiempos_parada without force_refresh that starts within the
\* TTL after a successful one for the same stop returns the result of that
\* one and makes no upstream lookup; a call with force_refresh, or one that
\* finds no valid entry, makes exactly one upstream lookup, and when it
\* returns its result is the one found in the cache, stored by that call.
C19_CacheHitOrSingleLookup ==
    /\ arrivals.lookups <= 1
    /\ (/\ arrivals.pc # "idle"
        /\ ~arrivals.force_refresh
        /\ arrivals.prior.valid
        /\ arrivals.prior.codigo = arrivals.codigo
        /\ arrivals.at - arrivals.prior.at < TiemposTTL)
          => /\ arrivals.pc = "returned"
             /\ arrivals.lookups = 0
             /\ arrivals.result = arrivals.prior.result
    /\ (/\ arrivals.pc \in {"returned", "raised"}
        /\ arrivals.force_refresh \/ ~ValidEntryAtCall)
          => /\ arrivals.lookups = 1
             /\ arrivals.pc = "returned" =>
                   /\ arrivals.stored
                   /\ \E row \in tiempos_cache :
                         /\ row.parada_codigo = arrivals.codigo
                         /\ Decodable(row.tiempos_json)
                         /\ JsonLoads(row.tiempos_json) = arrivals.result
                         /\ row.cached_at >= arrivals.at
    /\ (arrivals.pc = "raised" \/ arrivals.stored)
          => arrivals.force_refresh \/ ~ValidEntryAtCall

\* A call at second 30 is served the result a call at second 0 fetched
C19_Witness ==
    /\ arrivals.pc = "returned"
    /\ ~arrivals.force_refresh
    /\ arrivals.lookups = 0
    /\ arrivals.prior.valid
    /\ arrivals.prior.at = 0
    /\ arrivals.at = 30
    /\ arrivals.result = arrivals.prior.result
    /\ Len(arrivals.result.tiempos) = 10

(***************************************************************************)
(* GET /cercanas: claims                                                   *)
(***************************************************************************)
\* C20: a /cercanas request is not failed by the arrival lookups: it ends
\* with a response that holds every selected stop, in the order selected,
\* after a lookup was made for each of them; a stop whose lookup failed is
\* in the response with an empty arrivals list, and a stop whose lookup
\* succeeded with the first 5 of its arrivals.
C20_FailedLookupGivesEmptyArrivals ==
    /\ cercanas.pc # "failed"
    /\ Len(cercanas.lookups) = Len(cercanas.resultado)
    /\ cercanas.pc = "responded" =>
          /\ Len(cercanas.lookups) = Len(cercanas.paradas)
          /\ \A i \in 1..Len(cercanas.paradas) :
                /\ cercanas.resultado[i].codigo
                      = cercanas.paradas[i].parada.codigo
                /\ ~cercanas.lookups[i].ok
                      => cercanas.resultado[i].tiempos = <<>>
                /\ cercanas.lookups[i].ok
                      => \A k \in 1..5 :
                            k <= Len(cercanas.lookups[i].tiempos)
                              => /\ k <= Len(cercanas.resultado[i].tiempos)
                                 /\ cercanas.resultado[i].tiempos[k]
                                       = cercanas.lookups[i].tiempos[k]

\* Three stops selected: the lookup of the first fails with an httpx error,
\* the second succeeds, the third fails with another exception
C20_Witness ==
    /\ cercanas.pc = "responded"
    /\ Len(cercanas.paradas) = 3
    /\ ~cercanas.lookups[1].ok
    /\ cercanas.lookups[2].ok
    /\ ~cercanas.lookups[3].ok
    /\ cercanas.resultado[1].tiempos = <<>>
    /\ Len(cercanas.resultado[2].tiempos) = 5
    /\ cercanas.resultado[3].tiempos = <<>>

(***************************************************************************)
(* Address sync                                                            *)
(***************************************************************************)
\* The stops of a table that have no street
MissingAddress(table) == {r \in table : r.calle = NULL \/ r.calle = ""}

\* The geocode of stop p answered r: a road, footway or path was resolved,
\* or the stop has a display name to fall back on
UsableStreet(p, r) ==
    /\ r.kind = "status"
    /\ r.status = 200
    /\ (r.road # "" \/ r.footway # "" \/ r.path # "" \/ p.nombre # "")

WrittenCodes == {w.codigo : w \in dirsync.written}

\* C21: a finished address sync returns total = the number of stops that
\* had no address when it started, ok = the number of stops whose address
\* it persisted and errors = total - ok; a stop's address is persisted
\* exactly when its geocode gave a usable street (a resolved road, else the
\* stop's name).
C21_StatsCountPersistedAddresses ==
    dirsync.pc = "done" =>
        LET st == dirsync.stats[1]
            n == Len(dirsync.paradas)
        IN /\ {dirsync.paradas[k].codigo : k \in 1 .. n}
                  = {r.codigo : r \in MissingAddress(dirsync.before)}
           /\ st.total = Cardinality(MissingAddress(dirsync.before))
           /\ st.ok = Cardinality(WrittenCodes)
           /\ st.errors = st.total - st.ok
           /\ \A k \in 1 .. n :
                 dirsync.paradas[k].codigo \in WrittenCodes
                     <=> UsableStreet(dirsync.paradas[k], dirsync.answers[k])
           /\ \A w \in dirsync.written :
                 /\ HasParada(paradas, w.codigo)
                 /\ ParadaOf(paradas, w.codigo).calle = w.address.calle
                 /\ w.address.calle # ""

\* Two stops had no address: one got its name as street, the other failed
C21_Witness ==
    /\ dirsync.pc = "done"
    /\ dirsync.stats[1] = [total |-> 2, ok |-> 1, errors |-> 1]
    /\ \E w \in dirsync.written :
          /\ w.address.calle = "Plaza Nueva"
          /\ ParadaOf(paradas, w.codigo).direccion_completa = "Plaza Nueva"

\* The codes a batch mentions only with a street
CodesWithAddress(batch) ==
    {c \in CodesOf(batch) :
        \A i \in 1 .. Len(batch) : batch[i].codigo = c => HasCalle(batch[i])}

\* The value an input dict of save_paradas_batch carries for an address
\* column: its calle and numero, nothing for the other five
InputAddress(p, col) ==
    IF col = "calle" THEN p.calle
    ELSE IF col = "numero" THEN p.numero
    ELSE NULL

\* C22: after save_paradas_batch, a stop given with a street has every one
\* of its seven address columns overwritten by the input; none keeps the
\* value stored before the call.
C22_UpsertWithAddressOverwritesAll ==
    (lastCall.op = "save_paradas_batch" /\ lastCall.pc = "done") =>
        \A c \in CodesWithAddress(lastCall.args) :
            /\ HasParada(paradas, c)
            /\ \A col \in AddressColumns :
                  ParadaOf(paradas, c)[col]
                      = InputAddress(LastEntryOf(lastCall.args, c), col)

(***************************************************************************)
(* Address-cache keys                                                      *)
(***************************************************************************)
\* (37.38961, -5.98427), (37.38959, -5.98424) and (37.38959, -5.98427)
PairA == [lat |-> 3738961, lon |-> -598427]
PairB == [lat |-> 3738959, lon |-> -598424]
PairC == [lat |-> 3738959, lon |-> -598427]

\* The latest write to the address cache is a set with the coordinates c
LastSetAt(c) ==
    /\ Len(history) > 0
    /\ history[Len(history)].op = "save_direccion"
    /\ history[Len(history)].lat = c.lat
    /\ history[Len(history)].lon = c.lon

\* The row a set with the first coordinates leaves is the row a lookup with
\* the second coordinates selects, and such a lookup within the TTL returns
\* the payload of the set
SetFoundBy(first, second) ==
    LastSetAt(first) =>
        /\ \E row \in DireccionRows(direcciones_cache, Round4(second.lat),
                                    Round4(second.lon)) :
              row.direccion_json = JsonDumps(history[Len(history)].payload)
        /\ (/\ ret.op = "get_direccion"
            /\ ret.lat = second.lat
            /\ ret.lon = second.lon
            /\ ret.at - history[Len(history)].at < DireccionesTTL)
               => ret.result = history[Len(history)].payload

\* C23: (37.38961, -5.98427) and (37.38959, -5.98424) round to the same
\* address-cache key: an address stored under the first pair is returned by
\* a lookup with the second pair.
C23_PairsShareCacheKey == SetFoundBy(PairA, PairB)

\* C23, amended: (37.38961, -5.98427) and (37.38959, -5.98427) share the key
\* (37.3896, -5.9843), so an address stored under the first is returned by a
\* lookup with the second; (37.38959, -5.98424) has the key
\* (37.3896, -5.9842), and a lookup with it does not see that address.
C23_SameKeyOnlyWhenBothRoundAlike ==
    /\ SetFoundBy(PairA, PairC)
    /\ (/\ \A i \in 1 .. Len(history) :
              /\ history[i].op = "save_direccion"
              /\ history[i].lon = PairA.lon
        /\ ret.op = "get_direccion"
        /\ ret.lat = PairB.lat
        /\ ret.lon = PairB.lon)
           => ret.result = NULL

\* An address was stored under (37.38961, -5.98427) and a later lookup with
\* (37.38959, -5.98427) returned it
C23_Witness ==
    /\ LastSetAt(PairA)
    /\ ret.op = "get_direccion"
    /\ ret.lat = PairC.lat
    /\ ret.lon = PairC.lon
    /\ ret.at > history[Len(history)].at
    /\ ret.result = history[Len(history)].payload

(***************************************************************************)
(* One stop per code                                                       *)
(***************************************************************************)
IsUpsert == lastCall.op \in {"save_parada", "save_paradas_batch"}

\* C24: after any sequence of save_parada and save_paradas_batch calls the
\* table holds exactly one stop for every code ever given; a call that
\* gives only stored codes leaves the number of stops as it was, and every
\* stop carries the name and the coordinates last given for its code.
C24_OneStopPerCodeLatestWins ==
    lastCall.pc = "done" =>
        /\ {r.codigo : r \in paradas} = {e.codigo : e \in lastCall.latest}
        /\ Cardinality(paradas) = Cardinality({r.codigo : r \in paradas})
        /\ \A e \in lastCall.latest :
              LET r == ParadaOf(paradas, e.codigo)
              IN /\ r.nombre = e.nombre
                 /\ r.latitud = e.latitud
                 /\ r.longitud = e.longitud
        /\ (/\ IsUpsert
            /\ \A i \in 1 .. Len(lastCall.args) :
                  HasParada(lastCall.before, lastCall.args[i].codigo))
               => Cardinality(paradas) = Cardinality(lastCall.before)

\* Two stops are stored; save_parada gave one of them again with another
\* name and other coordinates, and there still are two
C24_Witness ==
    /\ lastCall.op = "save_parada"
    /\ Cardinality(lastCall.before) = 2
    /\ Cardinality(paradas) = 2
    /\ LET p == lastCall.args[1]
       IN /\ ParadaOf(lastCall.before, p.codigo).nombre # p.nombre
          /\ ParadaOf(lastCall.before, p.codigo).latitud # p.latitud
          /\ ParadaOf(paradas, p.codigo).nombre = p.nombre
          /\ ParadaOf(paradas, p.codigo).latitud = p.latitud

(***************************************************************************)
(* Sync endpoints                                                          *)
(***************************************************************************)
\* The request may run its sync: a key is configured and the request's
\* X-API-Key equals it, or insecure mode is on
MayRunSync ==
    \/ syncreq.expected # "" /\ syncreq.api_key = syncreq.expected
    \/ syncreq.insecure = "true"

\* C25: a sync endpoint runs its sync only if SYNC_API_KEY is configured and
\* the request's X-API-Key equals it (or ALLOW_INSECURE_SYNC=true): with the
\* key unset the request is refused without running the sync, and with a
\* missing or wrong key it is refused with 403 without running the sync.
C25_SyncOnlyWithConfiguredKey ==
    /\ syncreq.ran => MayRunSync
    /\ (syncreq.pc \in {"verified", "refused", "responded"} /\ ~MayRunSync)
           => /\ syncreq.pc = "refused"
              /\ ~syncreq.ran
              /\ syncreq.expected # "" => syncreq.status = 403

(***************************************************************************)
(* Rate limiting                                                           *)
(***************************************************************************)
\* The key and the limit a request is counted under: its X-Device-ID when
\* it has one of at most 64 characters, else its client IP
ClientKey(device_id, host) ==
    IF device_id \in {"watch-A"} THEN "device:" \o device_id
    ELSE "ip:" \o host
ClientLimit(device_id) ==
    IF device_id \in {"watch-A"} THEN device_limit ELSE ip_limit
LimitOfKey(key) == IF key = "device:watch-A" THEN device_limit ELSE ip_limit

\* How many of the timestamps lie in the 60 seconds that end at t
CountInWindow(stamps, t) ==
    Cardinality({i \in 1 .. Len(stamps) :
                    stamps[i] <= t /\ t - stamps[i] < 60})

\* C26: under every client key (the X-Device-ID when present and at most 64
\* characters long, else the client IP) at most `limit` requests are
\* forwarded with timestamps inside any 60-second window; a request that
\* arrives when its key already has `limit` forwarded requests in the last
\* 60 s is answered 429 with Retry-After and is not forwarded, and any
\* other request is forwarded.
C26_AtMostLimitPerWindow ==
    /\ \A key \in DOMAIN limiter.admitted, t \in LimiterInstants :
          CountInWindow(limiter.admitted[key], t) <= LimitOfKey(key)
    /\ limiter.last.status # 0 =>
          LET l == limiter.last
              full == CountInWindow(l.prior, l.at) >= ClientLimit(l.device_id)
          IN /\ l.key = ClientKey(l.device_id, l.host)
             /\ l.limit = ClientLimit(l.device_id)
             /\ full => /\ l.status = 429
                        /\ l.retry_after = "60"
                        /\ ~l.forwarded
                        /\ BucketOf(limiter.admitted, l.key) = l.prior
             /\ ~full => /\ l.forwarded
                         /\ l.status = 200
                         /\ BucketOf(limiter.admitted, l.key)
                                = Append(l.prior, l.at)

\* The device key is full within the window and its request was refused;
\* a request forwarded 60 s earlier under the same key no longer counts, and
\* requests under the IP key were forwarded meanwhile
C26_Witness ==
    /\ limiter.last.status = 429
    /\ limiter.last.key = "device:watch-A"
    /\ limiter.last.at = 60
    /\ Len(limiter.last.prior) > device_limit
    /\ limiter.last.prior[1] = 0
    /\ CountInWindow(limiter.last.prior, 60) = device_limit
    /\ "ip:10.0.0.1" \in DOMAIN limiter.admitted

(***************************************************************************)
(* Membership reads                                                        *)
(***************************************************************************)
\* What the read mread.op with argument mread.arg returns on a table
ReadOn(table) ==
    IF mread.op = "get_lineas_de_parada"
    THEN LineasDeParada(table, mread.arg)
    ELSE IF mread.op = "get_sentidos_for_parada"
    THEN SentidosForParada(table, mread.arg)
    ELSE ParadasDeLinea(table, paradas, mread.arg)

\* C27: a membership read made at any point of a running
\* save_paradas_lineas_batch returns what it returns on the complete set
\* stored before the replace or on the complete new set, never the result
\* of an emptied or partly inserted table.
C27_ReadSeesOldOrNewSet ==
    (mread.op # "none" /\ mread.concurrent) =>
        \/ mread.result = ReadOn(mread.before)
        \/ mread.result = ReadOn(FirstOfEachKey(mread.input))

\* A read was made while the replace had deleted the old rows and inserted
\* part of the new ones; it returned the old, non-empty answer, which
\* differs from the answer on the rows in progress
C27_Witness ==
    /\ mread.op \in {"get_lineas_de_parada", "get_sentidos_for_parada",
                     "get_paradas_de_linea"}
    /\ mread.concurrent
    /\ mread.work # {}
    /\ mread.work # FirstOfEachKey(mread.input)
    /\ mread.result = ReadOn(mread.before)
    /\ mread.result # ReadOn(mread.work)
    /\ mread.result # ReadOn({})

(***************************************************************************)
(* Membership sync with failed fetches                                     *)
(***************************************************************************)
\* The rows of a table for one line and direction
RowsOfIteration(table, it) ==
    {r \in table : r.linea_numero = it.label /\ r.sentido = it.sentido}

SyncSaved ==
    /\ msync.pc = "returned"
    /\ tx.caller = "sync"
    /\ msync.relaciones # <<>>

\* C28: a membership sync in which the fetch of some line/direction fails
\* while other fetches yield rows keeps the memberships stored before the
\* sync for the failed line/direction.
C28_FailedFetchKeepsStoredRows ==
    SyncSaved =>
        \A it \in msync.failed :
            RowsOfIteration(tx.before, it)
                \subseteq RowsOfIteration(paradas_lineas, it)

\* C28, amended: a membership sync that collected at least one row replaces
\* the whole table by the rows it collected, so the memberships stored
\* before for a line/direction whose fetch failed are gone; only a sync
\* that collected no row at all leaves the stored memberships as they were.
C28_FailedFetchLosesStoredRows ==
    /\ SyncSaved =>
          /\ paradas_lineas = FirstOfEachKey(msync.relaciones)
          /\ \A it \in msync.failed : RowsOfIteration(paradas_lineas, it) = {}
    /\ (msync.pc = "returned" /\ tx.caller = "sync"
            /\ msync.relaciones = <<>>) => paradas_lineas = tx.before

\* The fetch of one direction failed, the other yielded rows, and the rows
\* stored before for the failed direction are no longer there
C28_Witness ==
    /\ SyncSaved
    /\ \E it \in msync.failed :
          /\ RowsOfIteration(tx.before, it) # {}
          /\ RowsOfIteration(paradas_lineas, it) = {}
    /\ paradas_lineas # {}

(***************************************************************************)
(* Address sync against topology upserts                                   *)
(***************************************************************************)
BatchFinished == lastCall.pc = "done"
AddressSyncFinished == dirsync.pc \in {"done", "raised"}

\* C29: however a save_paradas_batch of stops without address data
\* interleaves with the update_parada_direccion calls of an address sync,
\* once both have finished every address the address sync wrote is stored
\* on its stop, in all seven address columns.
C29_WrittenAddressesSurviveUpsert ==
    (BatchFinished /\ AddressSyncFinished) =>
        \A w \in dirsync.written :
            /\ HasParada(paradas, w.codigo)
            /\ \A col \in AddressColumns :
                  ParadaOf(paradas, w.codigo)[col] = w.address[col]

\* A batch was opened while the stop had no address, the address sync wrote
\* the stop's address, the batch then upserted the stop and committed, and
\* the address is stored
C29_Witness ==
    /\ lastCall.op = "save_paradas_batch"
    /\ BatchFinished
    /\ dirsync.pc = "done"
    /\ \E w \in dirsync.written :
          /\ \E i \in 1 .. Len(lastCall.args) :
                lastCall.args[i].codigo = w.codigo
          /\ HasParada(lastCall.before, w.codigo)
          /\ ParadaOf(lastCall.before, w.codigo).calle = NULL
          /\ ParadaOf(paradas, w.codigo).calle = w.address.calle
          /\ ParadaOf(paradas, w.codigo).codigo_postal = "41001"

\* What get_cached_tiempos(codigo) returns on a table at instant t
CacheAnswer(table, codigo, t) == CachedTiempos(table, codigo, t).value

\* C30: when the upstream lookup of get_tiempos_parada fails, the error
\* reaches the caller and no entry is written to the arrival cache: a read
\* of the cache at any later instant returns what it would have returned
\* without the failed call.
C30_FailedLookupLeavesCacheAlone ==
    arrivals.failed =>
        /\ arrivals.pc = "raised"
        /\ arrivals.result = NULL
        /\ ~arrivals.stored
        /\ \A codigo \in CacheCodes, t \in ArrivalInstants :
              t >= now =>
                  CacheAnswer(tiempos_cache, codigo, t)
                      = CacheAnswer(arrivals.cache, codigo, t)
        /\ TiemposRows(tiempos_cache, arrivals.codigo)
              = TiemposRows(arrivals.cache, arrivals.codigo)

\* A forced refresh failed upstream while the cache held a fresh entry for
\* the stop from an earlier call; the entry is still the one served
C30_Witness ==
    /\ arrivals.failed
    /\ arrivals.pc = "raised"
    /\ arrivals.force_refresh
    /\ arrivals.prior.valid
    /\ arrivals.prior.codigo = arrivals.codigo
    /\ arrivals.prior.result.tiempos # <<>>
    /\ CacheAnswer(tiempos_cache, arrivals.codigo, now) = arrivals.prior.result

\* C31: the count sync_paradas_lineas_from_api returns equals the number of
\* membership rows the store holds when the sync completes.
C31_ReturnCountsStoredRows ==
    msync.pc = "returned" => msync.ret = Cardinality(paradas_lineas)

\* 0-based position of the first occurrence of codigo in a fetched sequence
FirstPosition(nodos, codigo) ==
    CHOOSE i \in 0 .. Len(nodos) - 1 :
        /\ nodos[i + 1] = codigo
        /\ \A j \in 0 .. i - 1 : nodos[j + 1] # codigo

\* The sync has just replaced the table with the rows it built
SyncStored ==
    /\ msync.pc = "returned"
    /\ tx.caller = "sync"
    /\ tx.outcome = "ok"

\* C32: after a membership sync each stored row (stop, line label,
\* direction) carries as ordinal the 0-based position of the stop in the
\* sequence fetched for that line and direction, its first position when
\* the stop occurs more than once.
C32_OrdinalIsPositionInSequence ==
    SyncStored =>
        \A r \in paradas_lineas :
            \E k \in 1 .. Len(msync.fetched) :
                LET f == msync.fetched[k] IN
                /\ f.label = r.linea_numero
                /\ f.sentido = r.sentido
                /\ \E i \in 1 .. Len(f.nodos) : f.nodos[i] = r.parada_codigo
                /\ r.orden = FirstPosition(f.nodos, r.parada_codigo)

\* A sync stored stop 43 fetched after a node without code (ordinal 1), and
\* another direction held stop 43 twice (ordinal 0 kept)
C32_Witness ==
    /\ SyncStored
    /\ \E k \in 1 .. Len(msync.fetched) :
          /\ msync.fetched[k].nodos = <<"", "43">>
          /\ Relacion("43", msync.fetched[k].label,
                      msync.fetched[k].sentido, 1) \in paradas_lineas
    /\ \E k \in 1 .. Len(msync.fetched) :
          /\ msync.fetched[k].nodos = <<"43", "43">>
          /\ Relacion("43", msync.fetched[k].label,
                      msync.fetched[k].sentido, 0) \in paradas_lineas

\* The places <<k, j>> of the nodes fetched by the running topology sync:
\* node j of the k-th line/direction, and the node at a place
NodePlaces ==
    UNION {{<<k, j>> : j \in 1 .. Len(topo.fetched[k].nodos)} :
              k \in 1 .. Len(topo.fetched)}

NodeAt(pl) == topo.fetched[pl[1]].nodos[pl[2]]

\* Iteration order: lines in upstream order, direction 1 before 2, then the
\* order of the sequence
PlaceBefore(a, b) == a[1] < b[1] \/ (a[1] = b[1] /\ a[2] < b[2])

\* The entry of todas_paradas holds the name and coordinates of a node
SameStop(e, nodo) ==
    /\ e.codigo = nodo.codigo
    /\ e.nombre = nodo.texto
    /\ e.latitud * 10 = nodo.latitudE6
    /\ e.longitud * 10 = nodo.longitudE6

\* The node lies in a sequence whose processing an earlier node without
\* position ended
AfterNullPosition(pl) ==
    /\ ~topo.fetched[pl[1]].ok
    /\ \E i \in 1 .. pl[2] - 1 : ~topo.fetched[pl[1]].nodos[i].posicion

\* The stops the sync upserted, when it has returned
TopoUpserted ==
    IF topo.pc = "returned"
    THEN {topo.todas[i] : i \in 1 .. Len(topo.todas)}
    ELSE {}

\* C33 as stated: for a code that occurs in several fetched sequences the
\* upserted name and coordinates are those of its first occurrence in
\* iteration order.
C33_FirstOccurrenceWins ==
    \A e \in TopoUpserted :
        \E pl \in NodePlaces :
            /\ SameStop(e, NodeAt(pl))
            /\ \A q \in NodePlaces :
                  NodeAt(q).codigo = e.codigo => ~PlaceBefore(q, pl)

\* C33, amended: the upserted name and coordinates of a code are those of
\* its first occurrence that carries a position with non-zero coordinates;
\* occurrences without them, and those behind a node whose missing position
\* ended the processing of their sequence, do not count. The row of table
\* paradas then holds that name and those coordinates.
C33_FirstUsableOccurrenceWins ==
    \A e \in TopoUpserted :
        /\ \E pl \in NodePlaces :
              /\ SameStop(e, NodeAt(pl))
              /\ NamesStop(NodeAt(pl))
              /\ \A q \in NodePlaces :
                    (NodeAt(q).codigo = e.codigo /\ PlaceBefore(q, pl)) =>
                        ~NamesStop(NodeAt(q)) \/ AfterNullPosition(q)
        /\ \A i, j \in 1 .. Len(topo.todas) :
              topo.todas[i].codigo = topo.todas[j].codigo => i = j
        /\ HasParada(paradas, e.codigo)
        /\ ParadaOf(paradas, e.codigo).nombre = e.nombre
        /\ ParadaOf(paradas, e.codigo).latitud = e.latitud
        /\ ParadaOf(paradas, e.codigo).longitud = e.longitud

\* Stop 43 was fetched with two names and the first was stored; stop 44 came
\* first without coordinates and a later sequence supplied the stored ones
C33_Witness ==
    /\ topo.pc = "returned"
    /\ Len(topo.fetched) = 4
    /\ topo.fetched[1].nodos = <<N44NoCoords, N43a>>
    /\ topo.fetched[2].nodos = <<NNoCode, N44b>>
    /\ topo.fetched[3].nodos = <<N43b, N44a>>
    /\ HasParada(paradas, "43")
    /\ ParadaOf(paradas, "43").nombre = N43a.texto
    /\ HasParada(paradas, "44")
    /\ ParadaOf(paradas, "44").nombre = N44b.texto
    /\ ParadaOf(paradas, "44").latitud * 10 = N44b.latitudE6

\* C34: _get_with_retry waits 2^(attempt+1) seconds after the retryable
\* response of attempt 0, 1 and 2 (2 s, 4 s, 8 s), and every such wait is
\* followed by a new GET of the same URL: a call that has ended made more
\* GETs than waits.
C34_EveryWaitIsFollowedByRetry ==
    /\ \A i \in 1 .. Len(retry.sleeps) :
          /\ retry.sleeps[i] = 2 ^ i
          /\ retry.gets[i].kind = "status"
          /\ retry.gets[i].status \in {429, 500, 502, 503}
    /\ retry.pc \in {"returned", "raised"} =>
          Len(retry.gets) > Len(retry.sleeps)

\* The codes of the stops the running or finished address sync selected,
\* and of those it has geocoded so far
SelectedCodes == {dirsync.paradas[k].codigo : k \in 1 .. Len(dirsync.paradas)}
GeocodedCodes == {dirsync.paradas[k].codigo : k \in 1 .. Len(dirsync.answers)}

\* C35: an address sync geocodes exactly the stops whose street is null or
\* empty at the start of the run, one geocode call each, and leaves every
\* other stop unmodified; a stop whose geocode failed stays without address
\* and is geocoded again by the next run, however many runs failed on it
\* before.
C35_GeocodesExactlyTheStopsWithoutStreet ==
    dirsync.pc \in {"running", "done"} =>
        /\ SelectedCodes = {r.codigo : r \in MissingAddress(dirsync.before)}
        /\ \A j, k \in 1 .. Len(dirsync.paradas) :
              dirsync.paradas[j].codigo = dirsync.paradas[k].codigo => j = k
        /\ Len(dirsync.answers) = dirsync.i
        /\ dirsync.pc = "done" => GeocodedCodes = SelectedCodes
        /\ \A r \in dirsync.before :
              r.codigo \notin WrittenCodes => r \in paradas
        /\ \A c \in GeocodedCodes \ WrittenCodes :
              ParadaOf(paradas, c).calle = NULL
        /\ \A c \in StopCodes :
              dirsync.failedRuns[c] > 0 =>
                  /\ c \in SelectedCodes
                  /\ dirsync.failedRuns[c] < dirsync.runs

\* Stop 43 had a street before the run and was left as it was; stop 44 was
\* geocoded without result in every run before, was selected and geocoded
\* again by the last run the bound allows, and is still without address
C35_Witness ==
    /\ dirsync.pc = "done"
    /\ dirsync.runs = MaxAddressRuns
    /\ dirsync.failedRuns["44"] = MaxAddressRuns - 1
    /\ SelectedCodes = {"44"}
    /\ Len(dirsync.answers) = 1
    /\ WrittenCodes = {}
    /\ ParadaOf(paradas, "44").calle = NULL
    /\ ParadaOf(paradas, "43").calle # NULL
    /\ ParadaOf(paradas, "43") \in dirsync.before

\* The waits and the geocode calls in the trace of the address sync
TraceSleeps == {k \in 1 .. Len(dirsync.trace) : dirsync.trace[k].ev = "sleep"}
TraceCalls == {k \in 1 .. Len(dirsync.trace) : dirsync.trace[k].ev = "geocode"}

\* C36: in an address sync a wait of 1.1 s lies between any two consecutive
\* geocode calls: the calls and waits alternate, starting with a call; a
\* run that has processed its n stops made n calls and n - 1 waits, each
\* before the next call and none after the last.
C36_OneWaitBetweenConsecutiveCalls ==
    /\ \A k \in 1 .. Len(dirsync.trace) :
          IF k % 2 = 1
          THEN /\ dirsync.trace[k].ev = "geocode"
               /\ dirsync.trace[k].codigo = dirsync.paradas[(k + 1) \div 2].codigo
          ELSE /\ dirsync.trace[k].ev = "sleep"
               /\ dirsync.trace[k].tenths = 11
    /\ dirsync.pc = "running" => Len(dirsync.trace) = 2 * dirsync.i
    /\ (dirsync.pc = "done" /\ Len(dirsync.paradas) > 0) =>
          /\ Cardinality(TraceCalls) = Len(dirsync.paradas)
          /\ Cardinality(TraceSleeps) = Len(dirsync.paradas) - 1
          /\ dirsync.trace[Len(dirsync.trace)].ev = "geocode"

\* A run over two stops has ended: call, wait, call
C36_Witness ==
    /\ dirsync.pc = "done"
    /\ Len(dirsync.paradas) = 2
    /\ Len(dirsync.trace) = 3
    /\ dirsync.trace[2] = [ev |-> "sleep", tenths |-> NominatimWait]
    /\ dirsync.trace[3].ev = "geocode"

\* C37: when a bearing is supplied, get_paradas_cercanas (served by
\* /paradas/cercanas) returns only stops whose bearing difference from the
\* query bearing is within bearing_tolerance.
C37_BearingFiltersByTolerance ==
    (nearby.op = "get_paradas_cercanas" /\ nearby.bearing # NoBearing) =>
        \A i \in 1 .. Len(nearby.result) :
            BearingDiff(nearby.bearing,
                        CalculateBearing(nearby.lat, nearby.lon,
                            nearby.result[i].parada.latitud,
                            nearby.result[i].parada.longitud))
                <= nearby.bearing_tolerance * 1000

\* C38: after any sequence of topology, line and membership syncs every
\* membership row refers to a stop present in table paradas and to a line
\* present in table lineas (the foreign keys declared on paradas_lineas
\* hold).
C38_MembershipRowsHaveStopAndLine ==
    \A r \in paradas_lineas :
        /\ HasParada(paradas, r.parada_codigo)
        /\ r.linea_numero \in tabla_lineas

\* The three syncs ran on an upstream whose line 01 lists stop 43 and, with
\* no latitude, stop 44: the stop table holds 43 only, the line table holds
\* 01, and the membership table holds a row for stop 44
C38_Witness ==
    /\ HasParada(paradas, "43")
    /\ ~HasParada(paradas, "44")
    /\ "01" \in tabla_lineas
    /\ Relacion("44", "01", 1, 0) \in paradas_lineas
    /\ Relacion("43", "01", 1, 1) \in paradas_lineas

\* C39: the bucket map of the rate limiter is bounded: whatever requests
\* arrive, from however many distinct client keys, the number of keys it
\* holds never exceeds the cap MAX_BUCKETS plus the key of the request being
\* handled.
C39_BucketMapWithinCap ==
    Cardinality(DOMAIN limiter.buckets) <= MaxBuckets + 1

\* Four devices sent a request each within one window: the forced sweep
\* found no stale key and the map holds four keys against a cap of two
C39_Witness ==
    /\ Cardinality(DOMAIN limiter.buckets) = MaxBuckets + 2
    /\ \A k \in DOMAIN limiter.buckets :
          /\ limiter.buckets[k] # <<>>
          /\ now - limiter.buckets[k][Len(limiter.buckets[k])] <= window
    /\ limiter.last_cleanup = now

\* C40: the shared HTTP client is closed exactly once, at process shutdown
\* after the scheduler was stopped, and no upstream request is issued on it
\* after it is closed, also when a scheduled sync is still running at
\* shutdown.
C40_ClosedOnceNoRequestAfterClose ==
    /\ lifecycle.closes <= 1
    /\ lifecycle.pc = "down" <=> lifecycle.client = "closed"
    /\ lifecycle.client = "closed" =>
          /\ lifecycle.closes = 1
          /\ lifecycle.stopped_before_close
          /\ lifecycle.late = 0

\* The process is down, the client was closed once after stop_scheduler,
\* and the weekly job, still running at shutdown, has called the closed
\* client
C40_Witness ==
    /\ lifecycle.pc = "down"
    /\ lifecycle.closes = 1
    /\ lifecycle.scheduler = "stopped"
    /\ lifecycle.job = "cancelled"
    /\ lifecycle.phase = 3
    /\ lifecycle.late = 1

====
